---- MODULE Spec2Model ----
(***************************************************************************)
(* A model of dbf.py (python-dbase 0.88.22): the table engine of one      *)
(* DbfTable (Db3Table or VfpTable, on disk or ':memory:'), its            *)
(* _DbfRecord objects, the table file, its live Lists and its live Index. *)
(*                                                                         *)
(* Sequential code is modelled by operators that thread an engine state   *)
(* record s through the statements of a method; s.exc names the exception *)
(* in flight ("" when none).  An action runs one public call to its end   *)
(* and stores the resulting engine state.                                  *)
(***************************************************************************)
EXTENDS Integers, Sequences, FiniteSets, TLC

\* ------------------------------------------------------------------ bounds
MaxRecs == 3
MaxHeld == 1
MaxLists == 1
MaxDrift == 1
MaxFields == 2
MaxShaped == 1
MaxEntries == 3
MaxMemo == 3
NameLen == 1

\* ------------------------------------------------------- program constants
HeaderLen == 32
DescLen == 32
VfpExtraLen == 263
Db3Version == 3
VfpVersion == 48
FoxBaseVersion == 2
Db3NoMemoMask == 127
Db3YesMemoMask == 128
FpNoMemoMask == 3
FpYesMemoMask == 245
Db3MemoLen == 10
VfpMemoLen == 4
MemoSize == 512
VfpMemoSize == 128
MemoHeaderLen == 512
Db3MemoTail == 2

\* ------------------------------------------------------------------- bytes
SP == " "
STAR == "*"
EOFB == "1A"
NUL == "00"
HB == "H"

NoObj == 0
None == <<>>
NoExc == ""

VARIABLES
  inmemory,     \* _meta.inmemory
  db3,          \* 'db3' in _versionabbv
  use_deleted,  \* DbfTable._use_deleted
  fields,       \* _meta.fields
  fmeta,        \* _meta[name]: start, length, end of every field
  header,       \* _meta.header: record_count, record_length, start
  blankrecord,  \* _meta.blankrecord
  current,      \* _meta.current
  table,        \* DbfTable._table: record objects (NoObj: a dead weak reference)
  heap,         \* the live _DbfRecord objects: _recnum, _data, _dirty
  held,         \* the record objects the caller holds a reference to
  fhead,        \* table file: bytes of the header region as last written
  fbody,        \* table file: the bytes after the header region
  lists,        \* DbfTable._dbflists: the live List objects
  indexen,      \* DbfTable._indexen: the live Index objects
  listed,       \* DbfTable._table is a plain list, not the weak-reference _Table
  dhead,        \* table file: the header as last written to it
  read_only,    \* DbfTable._read_only
  meta_only,    \* DbfTable._meta_only
  fp,           \* _versionabbv is 'fp'; neither db3 nor fp: 'vfp'
  memo,         \* _meta.memo: made (not None), nextmemo and the memory dictionary
  mfd,          \* _meta.mfd is an open descriptor (FALSE: None)
  mfile,        \* memo file: exists, the next free block of its header, the bytes
                \* from offset 512 on
  newmemofile,  \* _meta.newmemofile
  ignorememos,  \* _meta.ignorememos
  dfd,          \* _meta.dfd is an open descriptor of the table file
  damage,       \* what was done to the table file from outside the program
  last          \* history: the last call, its outcome and its result

vars == <<inmemory, db3, use_deleted, fields, fmeta, header, blankrecord, current,
          table, heap, held, fhead, fbody, lists, indexen, listed, dhead, read_only,
          meta_only, fp, memo, mfd, mfile, newmemofile, ignorememos, dfd, damage,
          last>>

\* -------------------------------------------------------------- sequences
Max(a, b) == IF a >= b THEN a ELSE b
Min(a, b) == IF a <= b THEN a ELSE b
Range(f) == {f[x] : x \in DOMAIN f}
Spaces(n) == [i \in 1..n |-> SP]
\* python s[a:b] on a sequence, 0-based, clipped
Slice(s, a, b) == SubSeq(s, Min(a, Len(s)) + 1, Min(b, Len(s)))
\* python list.pop(i), 0-based
PopAt(s, i) == SubSeq(s, 1, i) \o SubSeq(s, i + 2, Len(s))
\* python list.insert(i, x), 0-based
InsertAt(s, i, x) == SubSeq(s, 1, i) \o <<x>> \o SubSeq(s, i + 1, Len(s))
\* python s[a:b] = t on an array (the target slice is clipped to the array)
SetSlice(s, a, b, t) == Slice(s, 0, a) \o t \o Slice(s, Max(a, b), Len(s))

RECURSIVE RStrip(_)
RStrip(s) == IF Len(s) > 0 /\ s[Len(s)] = SP THEN RStrip(SubSeq(s, 1, Len(s) - 1)) ELSE s

\* the order of characters, and of python strings and tuples of them
Rank(c) == CASE c = NUL -> 0 [] c = EOFB -> 1 [] c = SP -> 2 [] c = STAR -> 3
             [] c = HB -> 4 [] c = "a" -> 5 [] c = "b" -> 6 [] OTHER -> 7
RECURSIVE SeqLess(_, _)
SeqLess(x, y) ==
  IF Len(y) = 0 THEN FALSE
  ELSE IF Len(x) = 0 THEN TRUE
  ELSE IF Rank(x[1]) # Rank(y[1]) THEN Rank(x[1]) < Rank(y[1])
  ELSE SeqLess(Tail(x), Tail(y))

\* bisect.bisect_left / bisect.bisect_right: 0-based insertion points
RECURSIVE BisectLeftIn(_, _, _, _)
BisectLeftIn(a, x, lo, hi) ==
  IF lo < hi
  THEN LET mid == (lo + hi) \div 2
       IN IF SeqLess(a[mid + 1], x) THEN BisectLeftIn(a, x, mid + 1, hi)
                                    ELSE BisectLeftIn(a, x, lo, mid)
  ELSE lo
BisectLeft(a, x) == BisectLeftIn(a, x, 0, Len(a))
RECURSIVE BisectRightIn(_, _, _, _)
BisectRightIn(a, x, lo, hi) ==
  IF lo < hi
  THEN LET mid == (lo + hi) \div 2
       IN IF SeqLess(x, a[mid + 1]) THEN BisectRightIn(a, x, lo, mid)
                                    ELSE BisectRightIn(a, x, mid + 1, hi)
  ELSE lo
BisectRight(a, x) == BisectRightIn(a, x, 0, Len(a))

\* ------------------------------------------------------------ engine state
\* the mutable state a call works on; exc is the exception in flight
Engine ==
  [fields |-> fields, fmeta |-> fmeta, header |-> header, blankrecord |-> blankrecord,
   current |-> current, table |-> table, heap |-> heap, fhead |-> fhead,
   fbody |-> fbody, lists |-> lists, indexen |-> indexen, listed |-> listed,
   dhead |-> dhead, memo |-> memo, mfd |-> mfd, mfile |-> mfile,
   newmemofile |-> newmemofile, dfd |-> dfd, exc |-> NoExc, ret |-> NoObj,
   trace |-> <<>>]

Raise(s, e) == [s EXCEPT !.exc = e]
\* what a call does to the file and to the observers, in the order it does it
Emit(s, e) == [s EXCEPT !.trace = Append(@, e)]
Ok(s) == s.exc = NoExc

\* ---------------------------------------------------------------- the file
FileSize(s) == s.fhead + Len(s.fbody)
\* every byte of the file, the header region as opaque bytes
Flat(s) == [i \in 1..FileSize(s) |-> IF i <= s.fhead THEN HB ELSE s.fbody[i - s.fhead]]
\* fd.seek(loc); fd.write(bytes): a gap past the end of the file reads as zero bytes
FWrite(s, loc, bytes) ==
  LET n == Len(bytes)
      flat == Flat(s)
      size == Max(FileSize(s), loc + n)
      new == [i \in 1..size |-> IF i > loc /\ i <= loc + n THEN bytes[i - loc]
                                ELSE IF i <= Len(flat) THEN flat[i] ELSE NUL]
      head == IF n > 0 THEN Min(s.fhead, loc) ELSE s.fhead
      at == loc - s.fhead
      body == s.fbody
  IN IF loc >= s.fhead
     THEN [s EXCEPT !.fbody = [i \in 1..Max(Len(body), at + n) |->
                                 IF i > at /\ i <= at + n THEN bytes[i - at]
                                 ELSE IF i <= Len(body) THEN body[i] ELSE NUL]]
     ELSE [s EXCEPT !.fhead = head, !.fbody = SubSeq(new, head + 1, size)]
\* fd.seek(0); fd.write(header.data): header.data is header.start bytes long
FWriteHeader(s) ==
  LET flat == Flat(s)
      n == s.header.start
      size == Max(FileSize(s), n)
  IN IF n = s.fhead THEN Emit([s EXCEPT !.dhead = s.header], "header")
     ELSE Emit([s EXCEPT !.fhead = n, !.fbody = SubSeq(flat, n + 1, size),
                         !.dhead = s.header], "header")
\* fd.truncate(size): cuts the file, or extends it with zero bytes
FTruncate(s, size) ==
  LET flat == Flat(s)
      new == [i \in 1..size |-> IF i <= Len(flat) THEN flat[i] ELSE NUL]
      head == Min(s.fhead, size)
      body == s.fbody
  IN IF size >= s.fhead
     THEN [s EXCEPT !.fbody = [i \in 1..(size - s.fhead) |->
                                 IF i <= Len(body) THEN body[i] ELSE NUL]]
     ELSE [s EXCEPT !.fhead = head, !.fbody = SubSeq(new, head + 1, size)]
\* fd.seek(loc); fd.read(n): short at the end of the file
FRead(s, loc, n) ==
  IF loc >= s.fhead THEN Slice(s.fbody, loc - s.fhead, loc - s.fhead + n)
  ELSE Slice(Flat(s), loc, loc + n)

\* ------------------------------------------------------------ the dialect
\* _yesMemoMask, _noMemoMask, _supported_tables, _memotypes and the header template
YesMemoMask == IF db3 THEN Db3YesMemoMask ELSE IF fp THEN FpYesMemoMask ELSE VfpVersion
NoMemoMask == IF db3 THEN Db3NoMemoMask ELSE IF fp THEN FpNoMemoMask ELSE VfpVersion
SupportedTables ==
  IF db3 THEN {Db3Version, Db3Version + Db3YesMemoMask}
  ELSE IF fp THEN {Db3Version, FpYesMemoMask} ELSE {VfpVersion}
MemoTypes == IF db3 THEN {"M"} ELSE {"G", "M", "P"}
TemplateVersion(isdb3) == IF isdb3 THEN Db3Version ELSE VfpVersion

\* the bits of a byte: ord(a) & ord(b) and ord(a) | ord(b)
RECURSIVE BitAnd(_, _)
BitAnd(a, b) ==
  IF a = 0 \/ b = 0 THEN 0
  ELSE (IF a % 2 = 1 /\ b % 2 = 1 THEN 1 ELSE 0) + 2 * BitAnd(a \div 2, b \div 2)
RECURSIVE BitOr(_, _)
BitOr(a, b) ==
  IF a = 0 THEN b
  ELSE IF b = 0 THEN a
  ELSE (IF a % 2 = 1 \/ b % 2 = 1 THEN 1 ELSE 0) + 2 * BitOr(a \div 2, b \div 2)

\* ---------------------------------------------------------- the memo store
NoMemo == [made |-> FALSE, nextmemo |-> 1, memory |-> <<>>]
NoFile == [exists |-> FALSE, next |-> 0, data |-> <<>>]

\* the first block of a new memo file: 1 for _Db3Memo, 512 // memo_size rounded up
\* for _VfpMemo
FirstBlock ==
  IF db3 THEN 1
  ELSE (MemoHeaderLen \div VfpMemoSize)
       + (IF (MemoHeaderLen \div VfpMemoSize) * VfpMemoSize < MemoHeaderLen THEN 1 ELSE 0)

\* yo._memoClass(meta): _DbfMemo.__init__ with _Db3Memo._init or _VfpMemo._init
MemoNew(s, ondisk) ==
  IF ~ondisk \/ ignorememos
  THEN [s EXCEPT !.memo = [made |-> TRUE, nextmemo |-> 1, memory |-> <<>>],
                 !.newmemofile = FALSE]
  ELSE IF s.newmemofile
  THEN [s EXCEPT !.memo = [made |-> TRUE, nextmemo |-> FirstBlock, memory |-> <<>>],
                 !.mfd = TRUE,
                 !.mfile = [exists |-> TRUE, next |-> FirstBlock, data |-> <<>>],
                 !.newmemofile = FALSE]
  ELSE IF ~s.mfile.exists THEN Raise(s, "DbfError")
  ELSE [s EXCEPT !.memo = [made |-> TRUE, nextmemo |-> s.mfile.next, memory |-> <<>>],
                 !.mfd = TRUE,
                 !.newmemofile = FALSE]

\* mfd.seek(loc); mfd.write(bytes), loc at or after the 512 bytes of the header
MWrite(data, at, bytes) ==
  [i \in 1..Max(Len(data), at + Len(bytes)) |->
     IF i > at /\ i <= at + Len(bytes) THEN bytes[i - at]
     ELSE IF i <= Len(data) THEN data[i] ELSE NUL]
\* mfd.seek(loc); mfd.read(n)
MRead(data, at, n) == Slice(data, at, at + n)

\* data.find('\x1a\x1a')
Ends(data) == {i \in 1..(Len(data) - 1) : data[i] = EOFB /\ data[i + 1] = EOFB}
Leftmost(S) == IF S = {} THEN -1 ELSE (CHOOSE i \in S : \A j \in S : i <= j) - 1
Find(data) == Leftmost(Ends(data))

\* _Db3Memo._get_memo(block): the loop that reads a block at a time
RECURSIVE Db3Scan(_, _, _, _)
Db3Found(file, at, data, eom) ==
  IF eom = -1 THEN Db3Scan(file, at, data, MRead(file, at, MemoSize))
  ELSE RStrip(SubSeq(data, 1, eom))
Db3Scan(file, at, data, newdata) ==
  IF newdata = <<>> THEN data
  ELSE Db3Found(file, at + MemoSize, data \o newdata, Find(data \o newdata))
Db3GetMemo(s, block) ==
  Db3Scan(s.mfile.data, block * MemoSize - MemoHeaderLen, <<>>,
          MRead(s.mfile.data, block * MemoSize - MemoHeaderLen, MemoSize))

\* a count of blocks that takes one block for every memo
OneBlock(length) == IF length < 0 THEN 0 ELSE 1
\* the number of blocks of a memo of the length
Blocks(length) == (length \div MemoSize) + (IF length % MemoSize # 0 THEN 1 ELSE 0)

\* _Db3Memo._put_memo(data): the engine state and the block number it returns
Db3Checked(s, thismemo, data, double_check) ==
  IF Len(double_check) # Len(data) THEN [s |-> Raise(s, "DbfError"), block |-> 0]
  ELSE [s |-> s, block |-> thismemo]
Db3Written(s, thismemo, data) == Db3Checked(s, thismemo, data, Db3GetMemo(s, thismemo))
Db3Put(s, thismemo, data, blocks) ==
  Db3Written([s EXCEPT !.memo.nextmemo = thismemo + blocks,
                       !.mfile.next = thismemo + blocks,
                       !.mfile.data = MWrite(@, thismemo * MemoSize - MemoHeaderLen,
                                             data \o <<EOFB, EOFB>>)],
             thismemo, data)
Db3PutMemo(s, data) ==
  Db3Put(s, s.memo.nextmemo, RStrip(data), Blocks(Len(RStrip(data)) + Db3MemoTail))

\* the bytes of the model by their value: chr(n) and ord(c)
Hex == <<"0", "1", "2", "3", "4", "5", "6", "7", "8", "9", "A", "B", "C", "D", "E", "F">>
Chr(n) ==
  CASE n = 0 -> NUL [] n = 26 -> EOFB [] n = 32 -> SP [] n = 42 -> STAR
    [] n = 97 -> "a" [] n = 98 -> "b"
    [] OTHER -> Hex[(n \div 16) + 1] \o Hex[(n % 16) + 1]
Ord(c) == CHOOSE n \in 0..255 : Chr(n) = c
\* packLongInt(value, bigendian=True), packShortInt(value, bigendian=True) and
\* unpackLongInt(bytes, bigendian=True)
PackLongBE(n) ==
  <<Chr((n \div 16777216) % 256), Chr((n \div 65536) % 256), Chr((n \div 256) % 256),
    Chr(n % 256)>>
PackShortBE(n) == <<Chr((n \div 256) % 256), Chr(n % 256)>>
UnpackLongBE(b) ==
  Ord(b[1]) * 16777216 + Ord(b[2]) * 65536 + Ord(b[3]) * 256 + Ord(b[4])

\* the memo file of a _VfpMemo from its first byte, and mfd.seek(at); mfd.read(n) on it
VfpFlat(s) ==
  PackLongBE(s.mfile.next) \o <<NUL, NUL>> \o PackShortBE(VfpMemoSize)
  \o [i \in 1..(MemoHeaderLen - 8) |-> NUL] \o s.mfile.data
VfpRead(s, at, n) ==
  IF at >= MemoHeaderLen THEN MRead(s.mfile.data, at - MemoHeaderLen, n)
  ELSE Slice(VfpFlat(s), at, at + n)

\* _VfpMemo._get_memo(block)
VfpRecord(s, block, head) ==
  IF Len(head) < 8 THEN [s |-> Raise(s, "struct.error"), data |-> <<>>]
  ELSE [s |-> s,
        data |-> VfpRead(s, block * VfpMemoSize + 8, UnpackLongBE(SubSeq(head, 5, 8)))]
VfpGetMemo(s, block) == VfpRecord(s, block, VfpRead(s, block * VfpMemoSize, 8))

\* _VfpMemo._put_memo(data): the next free block is the one the file header names
VfpPut(s, thismemo, data, length) ==
  [s |-> [s EXCEPT !.mfile.next = thismemo + (length \div VfpMemoSize)
                                  + (IF length % VfpMemoSize # 0 THEN 1 ELSE 0),
                   !.mfile.data = MWrite(@, thismemo * VfpMemoSize - MemoHeaderLen,
                                         <<NUL, NUL, NUL, Chr(1)>>
                                         \o PackLongBE(Len(data)) \o data)],
   block |-> thismemo]
VfpPutMemo(s, data) == VfpPut(s, s.mfile.next, RStrip(data), Len(RStrip(data)) + 8)

\* _DbfMemo.get_memo(block, field)
GetMemo(s, block) ==
  IF ignorememos \/ block = 0 THEN [s |-> s, data |-> <<>>]
  ELSE IF ~inmemory
  THEN (IF db3 THEN [s |-> s, data |-> Db3GetMemo(s, block)] ELSE VfpGetMemo(s, block))
  ELSE IF block \in 1..Len(s.memo.memory) THEN [s |-> s, data |-> s.memo.memory[block]]
  ELSE [s |-> Raise(s, "KeyError"), data |-> <<>>]

\* put_memo that does not look at meta.ignorememos
PutAnyway(s, data) ==
  IF data = <<>> THEN [s |-> s, block |-> 0]
  ELSE IF inmemory
  THEN [s |-> [s EXCEPT !.memo.nextmemo = @ + 1, !.memo.memory = Append(@, data)],
        block |-> s.memo.nextmemo]
  ELSE IF db3 THEN Db3PutMemo(s, data)
  ELSE VfpPutMemo(s, data)

\* _DbfMemo.put_memo(data)
PutMemo(s, data) ==
  IF ignorememos \/ data = <<>> THEN [s |-> s, block |-> 0]
  ELSE IF inmemory
  THEN [s |-> [s EXCEPT !.memo.nextmemo = @ + 1, !.memo.memory = Append(@, data)],
        block |-> s.memo.nextmemo]
  ELSE IF db3 THEN Db3PutMemo(s, data)
  ELSE VfpPutMemo(s, data)

\* ------------------------------------------------------------- the records
KeyField == "name"
RecLen(s) == s.header.record_length
Location(s, recnum) == recnum * s.header.record_length + s.header.start
NewId(s) == CHOOSE i \in 1..(Cardinality(DOMAIN s.heap) + 1) : i \notin DOMAIN s.heap
Alloc(s, rec) == [s EXCEPT !.heap = [i \in DOMAIN s.heap \cup {NewId(s)} |->
                                     IF i = NewId(s) THEN rec ELSE s.heap[i]]]
Deleted(rec) == rec.data[1] = STAR

\* _DbfRecord.__getattr__ and retrieveCharacter: the value of a field
HasField(s, name) == \E i \in 1..Len(s.fields) : s.fields[i] = name
FieldValue(s, rec, name) ==
  RStrip(Slice(rec.data, s.fmeta[name].start, s.fmeta[name].end))

\* _DbfRecord._updateFieldValue once update(value, fielddef, memo) gave the bytes
StoreBytes(s, o, name, bytes) ==
  LET size == s.fmeta[name].length
      start == s.fmeta[name].start
      blank == [i \in 1..size |-> IF i <= Len(bytes) THEN bytes[i] ELSE SP]
  IN IF ~Ok(s) THEN s
     ELSE IF Len(bytes) > size THEN Raise(s, "DataOverflow")
     ELSE [s EXCEPT !.heap[o].data = SetSlice(@, start, start + size, blank),
                    !.heap[o].dirty = TRUE]

\* str(block) and "%*s" % (length, block)
RECURSIVE Decimal(_)
Decimal(n) == IF n < 10 THEN <<Hex[n + 1]>> ELSE Decimal(n \div 10) \o <<Hex[(n % 10) + 1]>>
Padded(length, text) == Spaces(length - Len(text)) \o text
\* --------------------------------------------------- field value codecs
\* python values: True, False and None; Date() (the empty date) and Date(y, m, d)
PyTrue == "True"
PyFalse == "False"
PyNone == "None"
NoDate == <<>>
\* the outcome of an update function: the bytes, or the exception it raised
Bytes(b) == [exc |-> NoExc, bytes |-> b]
Failed(e) == [exc |-> e, bytes |-> <<>>]
\* "%0*d" % (width, n) and int(string) of decimal digits
ZeroPadded(width, n) == [i \in 1..(width - Len(Decimal(n))) |-> "0"] \o Decimal(n)
DigitOf(c) == (CHOOSE k \in 1..10 : Hex[k] = c) - 1
RECURSIVE ParseInt(_)
ParseInt(b) ==
  IF Len(b) = 0 THEN 0 ELSE 10 * ParseInt(SubSeq(b, 1, Len(b) - 1)) + DigitOf(b[Len(b)])

\* convertToBool(value) for a value that is not a string: bool(value)
ConvertToBool(value) == value = PyTrue
\* updateLogical(logical): the byte 'T' or 'F'
UpdateLogical(logical) ==
  Bytes(IF (IF logical \in {PyTrue, PyFalse} THEN logical = PyTrue
            ELSE ConvertToBool(logical))
        THEN <<"T">> ELSE <<"F">>)
\* retrieveLogical(bytes)
RetrieveLogical(b) ==
  IF b = <<"?">> THEN PyNone
  ELSE IF b \in {<<"t">>, <<"T">>, <<"y">>, <<"Y">>} THEN PyTrue ELSE PyFalse

\* updateDate(moment): "%04d%02d%02d", or eight spaces for the empty date
UpdateDate(moment) ==
  Bytes(IF moment # NoDate
        THEN ZeroPadded(4, moment[1]) \o ZeroPadded(2, moment[2]) \o ZeroPadded(2, moment[3])
        ELSE Spaces(8))
\* retrieveDate(bytes): Date.fromymd
RetrieveDate(b) ==
  IF b \in {<<>>, Spaces(8)} THEN NoDate
  ELSE <<ParseInt(SubSeq(b, 1, 4)), ParseInt(SubSeq(b, 5, 6)), ParseInt(SubSeq(b, 7, Len(b)))>>

\* struct.pack('<i', value) and struct.unpack('<i', bytes)[0]: 32 bits, two's
\* complement, low byte first; the low 31 bits and the sign bit apart
MaxInt32 == 2147483647
MinInt32 == (0 - MaxInt32) - 1
Low31(value) == IF value < 0 THEN value - MinInt32 ELSE value
PackInt(value) ==
  <<Chr(Low31(value) % 256), Chr((Low31(value) \div 256) % 256),
    Chr((Low31(value) \div 65536) % 256),
    Chr((Low31(value) \div 16777216) + (IF value < 0 THEN 128 ELSE 0))>>
UnpackInt(b) ==
  LET low == Ord(b[1]) + Ord(b[2]) * 256 + Ord(b[3]) * 65536 + (Ord(b[4]) % 128) * 16777216
  IN IF Ord(b[4]) >= 128 THEN low + MinInt32 ELSE low
\* updateInteger(value)
UpdateInteger(value) ==
  IF ~(MinInt32 < value /\ value < MaxInt32) THEN Failed("DataOverflow")
  ELSE Bytes(PackInt(value))
\* retrieveInteger(bytes)
RetrieveInteger(b) == UnpackInt(b)

\* updateCharacter(string) and retrieveCharacter(bytes)
UpdateCharacter(string) == Bytes(RStrip(string))
RetrieveCharacter(b) == RStrip(b)

\* the update and the retrieve function of a field type, and the length its
\* Init function gives a field (C: the length asked for)
Update(type, value) ==
  CASE type = "L" -> UpdateLogical(value)
    [] type = "D" -> UpdateDate(value)
    [] type = "I" -> UpdateInteger(value)
    [] OTHER -> UpdateCharacter(value)
Retrieve(type, b) ==
  CASE type = "L" -> RetrieveLogical(b)
    [] type = "D" -> RetrieveDate(b)
    [] type = "I" -> RetrieveInteger(b)
    [] OTHER -> RetrieveCharacter(b)
\* _DbfRecord._updateFieldValue on a field of the size: the bytes of the field,
\* or DataOverflow when the update function gave more than the field holds
FieldBytes(size, upd) ==
  IF upd.exc # NoExc THEN upd
  ELSE IF Len(upd.bytes) > size THEN Failed("DataOverflow")
  ELSE Bytes(upd.bytes \o Spaces(size - Len(upd.bytes)))
\* record.field = value; record.field on a field of the type and size:
\* the exception, or the value read back
ReadBack(type, stored) ==
  IF stored.exc # NoExc THEN [exc |-> stored.exc, value |-> PyNone]
  ELSE [exc |-> NoExc, value |-> Retrieve(type, stored.bytes)]
RoundTrip(type, size, value) == ReadBack(type, FieldBytes(size, Update(type, value)))

\* ------------------------------------------- Logical and Date operations
\* Logical.A(x, y), the | of Logical: x.value and y are True, False or None
LogicalA(x, y) ==
  IF x = PyNone \/ y = PyNone THEN PyNone
  ELSE IF x = PyTrue \/ y = PyTrue THEN PyTrue
  ELSE PyFalse
\* Logical.K(x, y), the & of Logical
LogicalK(x, y) ==
  IF x = PyNone \/ y = PyNone THEN PyNone
  ELSE IF y = PyTrue THEN (IF x = PyTrue THEN PyTrue ELSE PyFalse)
  ELSE PyFalse

\* datetime.date comparison of two real dates
DateBefore(a, b) ==
  \/ a[1] < b[1]
  \/ a[1] = b[1] /\ a[2] < b[2]
  \/ a[1] = b[1] /\ a[2] = b[2] /\ a[3] < b[3]
\* Date.__eq__, __ge__, __gt__, __le__, __lt__ with another Date
DateEq(yo, other) ==
  IF yo # NoDate THEN (IF other # NoDate THEN yo = other ELSE FALSE)
  ELSE (IF other # NoDate THEN FALSE ELSE TRUE)
DateGe(yo, other) ==
  IF yo # NoDate THEN (IF other # NoDate THEN ~DateBefore(yo, other) ELSE FALSE)
  ELSE (IF other # NoDate THEN FALSE ELSE TRUE)
DateGt(yo, other) ==
  IF yo # NoDate THEN (IF other # NoDate THEN DateBefore(other, yo) ELSE TRUE)
  ELSE (IF other # NoDate THEN FALSE ELSE FALSE)
DateLe(yo, other) ==
  IF yo # NoDate THEN (IF other # NoDate THEN ~DateBefore(other, yo) ELSE FALSE)
  ELSE (IF other # NoDate THEN TRUE ELSE TRUE)
DateLt(yo, other) ==
  IF yo # NoDate THEN (IF other # NoDate THEN DateBefore(yo, other) ELSE FALSE)
  ELSE (IF other # NoDate THEN TRUE ELSE FALSE)

\* updateMemo and updateVfpMemo: the bytes of the block number put_memo returned
MemoBytes(length, block) ==
  IF db3 \/ fp THEN Padded(length, IF block = 0 THEN <<>> ELSE Decimal(block))
  ELSE <<Chr(block % 256), Chr((block \div 256) % 256), Chr((block \div 65536) % 256),
         Chr((block \div 16777216) % 256)>>
UpdateMemo(put, o, name) ==
  StoreBytes(put.s, o, name, MemoBytes(put.s.fmeta[name].length, put.block))

\* _DbfRecord._updateFieldValue with updateCharacter, updateMemo or updateVfpMemo
UpdateFieldValue(s, o, name, value) ==
  IF s.fmeta[name].type = "C" THEN StoreBytes(s, o, name, RStrip(value))
  ELSE UpdateMemo(PutMemo(s, value), o, name)

\* retrieveMemo and retrieveVfpMemo: the block number the field holds, then
\* memo.get_memo(block, fielddef)
RECURSIVE LStrip(_)
LStrip(b) == IF Len(b) > 0 /\ b[1] = SP THEN LStrip(SubSeq(b, 2, Len(b))) ELSE b
MemoBlock(b) ==
  IF db3 \/ fp THEN (IF LStrip(RStrip(b)) # <<>> THEN ParseInt(LStrip(RStrip(b))) ELSE 0)
  ELSE UnpackInt(b)
RetrieveMemo(s, o, name) ==
  GetMemo(s, MemoBlock(Slice(s.heap[o].data, s.fmeta[name].start, s.fmeta[name].end)))

\* _DbfRecord.__setattr__ for a field name
SetAttr(s, o, name, value) ==
  IF ~HasField(s, name) THEN Raise(s, "FieldMissing")
  ELSE UpdateFieldValue(s, o, name, value)

\* _DbfRecord._createBlankRecord: every field of the model is Character, blank ''
RECURSIVE BlankFields(_, _, _)
BlankFields(s, data, k) ==
  IF k > Len(s.fields) THEN data
  ELSE LET f == s.fmeta[s.fields[k]]
       IN BlankFields(s, SetSlice(data, f.start, f.start + f.length, Spaces(f.length)), k + 1)
CreateBlankRecord(s) == [s EXCEPT !.blankrecord = BlankFields(s, Spaces(RecLen(s)), 1)]

\* ---------------------------------------------------------------- Index
\* an Index: _values, _rec_by_val, _records and its key function, which gives the
\* KeyField of the record, or DoNotIndex when that is one of the values in skip
NewIndex == [values |-> <<>>, rec_by_val |-> <<>>, records |-> <<>>, skip |-> {}]
IndexClear(ix) == [NewIndex EXCEPT !.skip = ix.skip]

\* the insertion of Index.__init__ and Index.__call__: bisect_right, two inserts
IndexInsert(ix, rec_num, value) ==
  LET vindex == BisectRight(ix.values, value)
  IN [values |-> InsertAt(ix.values, vindex, value),
      rec_by_val |-> InsertAt(ix.rec_by_val, vindex, rec_num),
      records |-> [r \in DOMAIN ix.records \cup {rec_num} |->
                     IF r = rec_num THEN value ELSE ix.records[r]],
      skip |-> ix.skip]

\* the removal of Index.__call__: the entry at bisect_left of the record's old key
IndexRemove(ix, rec_num) ==
  LET vindex == BisectLeft(ix.values, ix.records[rec_num])
  IN [ix EXCEPT !.values = PopAt(@, vindex), !.rec_by_val = PopAt(@, vindex)]

\* Index.__call__(record) for the index at position k; the key is the KeyField value
IndexCall(s, k, o) ==
  LET ix == s.indexen[k]
      rec == s.heap[o]
      known == rec.recnum \in DOMAIN ix.records
      popped == IF known THEN IndexRemove(ix, rec.recnum) ELSE ix
  IN IF known /\ BisectLeft(ix.values, ix.records[rec.recnum]) >= Len(ix.values)
     THEN Raise(s, "IndexError")
     ELSE IF ~HasField(s, KeyField)
          THEN Raise([s EXCEPT !.indexen[k] = popped], "FieldMissing")
     ELSE IF FieldValue(s, rec, KeyField) \in ix.skip
          THEN [s EXCEPT !.indexen[k] = popped]
     ELSE [s EXCEPT !.indexen[k] =
                      IndexInsert(popped, rec.recnum, FieldValue(s, rec, KeyField))]

\* for index in yo.record_table._indexen: index(yo)
RECURSIVE IndexAll(_, _, _)
IndexAll(s, k, o) ==
  IF k > Len(s.indexen) \/ ~Ok(s) THEN s
  ELSE IndexAll(IndexCall(Emit(s, "index"), k, o), k + 1, o)

\* _DbfRecord._update_disk()
RecUpdateDisk(s, o) ==
  LET rec == s.heap[o]
      written == [Emit(FWrite(s, Location(s, rec.recnum), rec.data), "record")
                    EXCEPT !.heap[o].dirty = FALSE]
  IN IF inmemory THEN IndexAll(s, 1, o)
     ELSE IF rec.recnum < 0 THEN Raise(s, "DbfError")
     ELSE IndexAll(written, 1, o)

\* _DbfRecord.write_record() without keyword arguments
WriteRecord(s, o) == IF s.heap[o].dirty THEN RecUpdateDisk(s, o) ELSE s

\* --------------------------------------------------------- the record cache
\* DbfTable._Table.__getitem__ (on disk) and list indexing (in memory), index >= 0
TableGet(s, i) ==
  LET size == RecLen(s)
      bytes == FRead(s, Location(s, i), size)
      short == Len(bytes) < size
      data == IF short THEN bytes \o Slice(s.blankrecord, Len(bytes), Len(s.blankrecord))
              ELSE bytes
      loaded == Alloc(s, [recnum |-> i, data |-> data, dirty |-> FALSE])
  IN IF i >= Len(s.table) THEN Raise(s, "IndexError")
     ELSE IF s.table[i + 1] # NoObj THEN s
     ELSE IF inmemory THEN Raise(s, "AttributeError")
     ELSE IF Len(bytes) = 0 THEN Raise(s, "ValueError")
     ELSE IF short /\ s.blankrecord = None THEN Raise(s, "TypeError")
     ELSE [loaded EXCEPT !.table[i + 1] = NewId(s)]

\* the objects of a disk table live only while something refers to them
Collect(s, keep) ==
  IF s.listed
  THEN LET live == keep \cup (Range(s.table) \ {NoObj})
       IN [s EXCEPT !.heap = [o \in DOMAIN s.heap \cap live |-> s.heap[o]]]
  ELSE [s EXCEPT !.heap = [o \in DOMAIN s.heap \cap keep |-> s.heap[o]],
                 !.table = [i \in 1..Len(s.table) |->
                              IF s.table[i] \in keep THEN s.table[i] ELSE NoObj]]

\* the live objects in a fixed order: those of the table by position, then the rest
RECURSIVE Ascending(_)
Ascending(S) ==
  IF S = {} THEN <<>>
  ELSE LET m == CHOOSE x \in S : \A y \in S : x <= y IN <<m>> \o Ascending(S \ {m})
ObjectOrder(s) ==
  SelectSeq(s.table, LAMBDA o : o # NoObj) \o Ascending(DOMAIN s.heap \ Range(s.table))
\* the name of object o in that order
NameOf(order, o) == CHOOSE n \in 1..Len(order) : order[n] = o
\* an object has no name of its own: the objects are renamed 1..n in that order
Rename(s, order) ==
  [s EXCEPT !.heap = [n \in 1..Len(order) |-> s.heap[order[n]]],
            !.table = [i \in 1..Len(s.table) |->
                         IF s.table[i] = NoObj THEN NoObj ELSE NameOf(order, s.table[i])]]

\* ------------------------------------------------------------ table to disk
\* record._update_disk() of the record at position i, once the table has yielded it
UpdateOne(got, i) == IF Ok(got) THEN RecUpdateDisk(got, got.table[i + 1]) ELSE got

\* for record in yo._table: record._update_disk()
RECURSIVE UpdateRecords(_, _)
UpdateRecords(s, i) ==
  IF i >= Len(s.table) \/ ~Ok(s) THEN s
  ELSE UpdateRecords(UpdateOne(TableGet(s, i), i), i + 1)

DataEnd(s) == s.header.start + s.header.record_count * s.header.record_length

\* yo._meta.dfd.truncate(header.start + record_count * record_length)
TruncateData(s) == IF Ok(s) THEN FTruncate(s, DataEnd(s)) ELSE s

\* the records part of DbfTable._update_disk
WriteRecords(s, headeronly) ==
  IF headeronly THEN s ELSE TruncateData(UpdateRecords(s, 0))

\* the dBase III end of DbfTable._update_disk: seek(0, SEEK_END), write 0x1A, truncate
WriteEof(s) ==
  IF db3 /\ Ok(s) THEN FTruncate(FWrite(s, FileSize(s), <<EOFB>>), DataEnd(s) + 1)
  ELSE s

\* DbfTable._update_disk(headeronly)
TableUpdateDisk(s, headeronly) ==
  IF inmemory THEN s ELSE WriteEof(WriteRecords(FWriteHeader(s), headeronly))

\* ---------------------------------------------------------------- append
\* the blank record is made when the first record is
WithBlank(s) == IF s.blankrecord = None THEN CreateBlankRecord(s) ELSE s

\* record._update_disk() of a record made new (not read from disk)
NewOnDisk(s) == IF inmemory THEN s ELSE RecUpdateDisk(s, s.ret)

\* _DbfRecord.__new__(recnum, layout, kamikaze) for recnum # -1, not from disk,
\* once the blank record exists; ret is the new object. The record that made
\* the blank record (created) was marked dirty by _updateFieldValue
MakeRecord(s, recnum, kamikaze, created) ==
  LET n == Len(kamikaze)
      size == RecLen(s)
      data == IF n < size THEN kamikaze \o Slice(s.blankrecord, n, Len(s.blankrecord))
              ELSE IF n > size THEN Slice(kamikaze, 0, size)
              ELSE kamikaze
  IN NewOnDisk([Alloc(s, [recnum |-> recnum, data |-> data, dirty |-> created])
                  EXCEPT !.ret = NewId(s)])
NewRecord(s, recnum, kamikaze) ==
  MakeRecord(WithBlank(s), recnum, kamikaze, s.blankrecord = None /\ Len(s.fields) > 0)

\* _DbfRecord.gather_fields(dictionary, drop); the dictionary is a sequence of
\* <<key, value>> in its iteration order
RECURSIVE GatherLoop(_, _, _, _, _)
GatherLoop(s, o, dict, drop, k) ==
  IF k > Len(dict) \/ ~Ok(s) THEN s
  ELSE IF ~HasField(s, dict[k][1])
       THEN IF drop THEN GatherLoop(s, o, dict, drop, k + 1) ELSE Raise(s, "FieldMissing")
  ELSE GatherLoop(SetAttr(s, o, dict[k][1], dict[k][2]), o, dict, drop, k + 1)
\* an except clause that only raises again
NoRestore(s, o, old_data) == s
\* except: yo._data[:] = old_data[:]; raise
Restore(s, o, old_data) == IF Ok(s) THEN s ELSE [s EXCEPT !.heap[o].data = old_data]
GatherFields(s, o, dict, drop) ==
  Restore(GatherLoop(s, o, dict, drop, 1), o, s.heap[o].data)

\* multi_record[field] = newrecord[field] for a memo field
CopyMemo(got, o, name) == IF Ok(got.s) THEN SetAttr(got.s, o, name, got.data) ELSE got.s
\* for field in yo._meta.memofields: multi_record[field] = newrecord[field]
RECURSIVE CopyMemos(_, _, _, _)
CopyMemos(s, o, newrecord, k) ==
  IF k > Len(s.fields) \/ ~Ok(s) THEN s
  ELSE IF s.fmeta[s.fields[k]].type \notin MemoTypes THEN CopyMemos(s, o, newrecord, k + 1)
  ELSE CopyMemos(CopyMemo(RetrieveMemo(s, newrecord, s.fields[k]), o, s.fields[k]),
                 o, newrecord, k + 1)

\* yo._table.append(multi_record); the memo fields; multi_record.write_record()
PutMore(made, newrecord) ==
  LET copied == CopyMemos([made EXCEPT !.table = Append(@, made.ret)], made.ret,
                          newrecord, 1)
  IN IF ~Ok(made) THEN made
     ELSE IF Ok(copied) THEN WriteRecord(copied, made.ret)
     ELSE copied

\* the additional records of append(multiple > 1)
RECURSIVE AppendMore(_, _, _, _, _)
AppendMore(s, newrecord, data, single, total) ==
  IF single >= total \/ ~Ok(s) THEN s
  ELSE AppendMore(PutMore(NewRecord(s, single, data), newrecord), newrecord, data,
                  single + 1, total)

\* yo._table.append(newrecord); yo._meta.header.record_count += 1
PutFirst(made) ==
  IF Ok(made)
  THEN [made EXCEPT !.table = Append(@, made.ret), !.header.record_count = @ + 1]
  ELSE made

\* the try block of append: gather_fields for a dict, then write_record
Fill(s, dict, drop) ==
  IF Len(dict) > 0 THEN GatherFields(s, s.ret, dict, drop) ELSE s
WriteNew(s) == IF Ok(s) THEN WriteRecord(s, s.ret) ELSE s
FillAndWrite(s, dict, drop) == WriteNew(Fill(s, dict, drop))

\* raise, at the end of the except block of append
Reraise(s, e) == IF Ok(s) THEN Raise(s, e) ELSE s

\* the except block of append
Rollback(s) ==
  IF ~Ok(s)
  THEN Reraise(TableUpdateDisk([s EXCEPT !.exc = NoExc,
                                         !.table = SubSeq(@, 1, Len(@) - 1),
                                         !.header.record_count = @ - 1], FALSE),
               s.exc)
  ELSE s

\* the end of the loop of append(multiple > 1)
Counted(s, total) ==
  IF Ok(s) THEN [s EXCEPT !.header.record_count = total, !.current = total - 1] ELSE s

\* if multiple: ... of append
More(s, multiple) ==
  IF Ok(s) /\ multiple - 1 # 0
  THEN Counted(AppendMore(s, s.ret, s.heap[s.ret].data, s.header.record_count,
                          s.header.record_count + multiple - 1),
               s.header.record_count + multiple - 1)
  ELSE s

\* yo._update_disk(headeronly=True); if empty_table: yo._meta.current = 0
Finish(s, empty_table) ==
  IF Ok(s) THEN (IF empty_table THEN [s EXCEPT !.current = 0] ELSE s) ELSE s
Synced(s) == IF Ok(s) THEN TableUpdateDisk(s, TRUE) ELSE s

\* the record is put in the table, filled and written, or put back out
Tried(put, dict, drop) ==
  IF Ok(put) THEN Rollback(FillAndWrite(put, dict, drop)) ELSE put

\* DbfTable.append(kamikaze, drop, multiple) for a dict (or no) kamikaze
AppendCall(s, dict, drop, multiple) ==
  IF Len(s.header.fields) = 0 THEN Raise(s, "DbfError")
  ELSE Finish(Synced(More(Tried(PutFirst(NewRecord(s, s.header.record_count, <<>>)),
                                dict, drop),
                          multiple)),
              s.header.record_count = 0)

\* ------------------------------------------------------------------ List
\* a List entry is (table, recno, value); the default key makes value the
\* (table, record_number) of the record when it was added
\* _set holds key values (set); List.__getitem__(slice) fills it with whole
\* entries instead (whole)
NewList == [list |-> <<>>, set |-> {}, whole |-> {}, current |-> -1]
SameItem(a, b) == a.recno = b.recno /\ a.value = b.value
\* python list.index(item), 0-based; the item is present
IndexOf(seq, item) == CHOOSE i \in 0..(Len(seq) - 1) :
                        /\ SameItem(seq[i + 1], item)
                        /\ \A j \in 0..(i - 1) : ~SameItem(seq[j + 1], item)
\* sorted(yo._list, key=lambda item: (item[0], item[1])): stable, by recno
RECURSIVE SortedByRecno(_)
SortedByRecno(seq) ==
  IF Len(seq) = 0 THEN <<>>
  ELSE LET i == CHOOSE i \in 1..Len(seq) :
                  /\ \A j \in 1..Len(seq) : seq[i].recno <= seq[j].recno
                  /\ \A j \in 1..(i - 1) : seq[j].recno # seq[i].recno
       IN <<seq[i]>> \o SortedByRecno(PopAt(seq, i - 1))

\* List._maybe_add(item)
MaybeAdd(l, item) ==
  IF item.value \in l.set THEN l
  ELSE [l EXCEPT !.set = @ \cup {item.value}, !.list = Append(@, item)]

\* the first loop of List._purge: the position in records where it stops, or
\* Len(records) - 1 when it runs off the end (item is then the last element)
PurgeStop(records, old_recno) ==
  IF \E i \in 1..Len(records) : records[i].recno >= old_recno
  THEN (CHOOSE i \in 1..Len(records) :
          /\ records[i].recno >= old_recno
          /\ \A j \in 1..(i - 1) : records[j].recno < old_recno) - 1
  ELSE Len(records) - 1

\* the second loop of List._purge: shift the entries records[k..] by -offset
RECURSIVE PurgeShift(_, _, _, _)
PurgeShift(r, records, k, offset) ==
  IF k > Len(records) \/ r.exc # NoExc THEN r
  ELSE IF records[k].value \notin r.l.set THEN [r EXCEPT !.exc = "KeyError"]
  ELSE PurgeShift([r EXCEPT !.l.list[IndexOf(r.l.list, records[k]) + 1].recno = @ - offset],
                  records, k + 1, offset)

\* List._purge from the place where the first loop stopped
PurgeFrom(l, records, stop, old_recno, offset) ==
  LET item == records[stop + 1]
      found == item.recno = old_recno
      at == IndexOf(l.list, item)
  IN IF found /\ item.value \notin l.set
     THEN [l |-> [l EXCEPT !.list = PopAt(@, at)], found |-> TRUE, exc |-> "KeyError"]
     ELSE IF found
     THEN PurgeShift([l |-> [l EXCEPT !.list = PopAt(@, at), !.set = @ \ {item.value}],
                      found |-> TRUE, exc |-> NoExc], records, stop + 2, offset)
     ELSE PurgeShift([l |-> l, found |-> FALSE, exc |-> NoExc], records, stop + 1, offset)

\* List._purge once the entries are sorted; with no entry the name item is unbound
PurgeSorted(l, records, old_recno, offset) ==
  IF Len(records) = 0 THEN [l |-> l, found |-> FALSE, exc |-> "UnboundLocalError"]
  ELSE PurgeFrom(l, records, PurgeStop(records, old_recno), old_recno, offset)

\* List._purge(record, old_record_number, offset): the list after it, whether the
\* entry was found, and the exception it raised
ListPurge(l, old_recno, offset) ==
  PurgeSorted(l, SortedByRecno(l.list), old_recno, offset)

\* ---------------------------------------------------- List, by the caller
\* (record.record_table, record.record_number, yo.key(record)) with the key of
\* the class, which is (record_table, record_number)
ItemOf(rec) == [recno |-> rec.recnum, value |-> rec.recnum]
Done(l) == [l |-> l, exc |-> NoExc]
Broke(l, e) == [l |-> l, exc |-> e]
\* yo._current = 0 if the list has entries and none is current
Pointed(l) == [l EXCEPT !.current = IF @ = -1 /\ Len(l.list) > 0 THEN 0 ELSE @]
\* result._current = 0 if result else -1
Fresh(l) == [l EXCEPT !.current = IF Len(l.list) > 0 THEN 0 ELSE -1]

\* List.insert(i, record): the whole entry is looked up in _set
ListInsert(l, i, item) ==
  IF item \in l.whole THEN Done(l)
  ELSE Done([l EXCEPT !.set = @ \cup {item.value}, !.list = InsertAt(@, Min(i, Len(@)), item)])

\* for rec in other: value = key(rec); yo._maybe_add((table, recno, value))
RECURSIVE AddEach(_, _, _)
AddEach(l, items, k) ==
  IF k > Len(items) THEN l ELSE AddEach(MaybeAdd(l, items[k]), items, k + 1)
\* List.extend(new_records) for another List
ListExtend(l, other) == Done(Pointed(AddEach(l, other.list, 1)))
\* List.__add__(other) for another List
ListAdd(l, other) == Done(Fresh(AddEach([l EXCEPT !.current = -1], other.list, 1)))

\* List.__sub__(other) for another List: the values of other that _set holds
\* leave it, and the entries with those values leave the list
ListSub(l, other) ==
  LET lost == {other.list[k].value : k \in 1..Len(other.list)} \cap l.set
  IN Done(Fresh([l EXCEPT !.set = @ \ lost,
                          !.list = SelectSeq(@, LAMBDA item : item.value \notin lost)]))

\* List.__getitem__(slice(a, b)): result._set = set(result._list)
ListSlice(l, a, b) ==
  Done(Fresh([NewList EXCEPT !.list = Slice(l.list, a, b),
                             !.whole = Range(Slice(l.list, a, b))]))

\* List.remove(record): yo._list.remove(item); yo._set.remove(item[2])
ListRemove(l, item) ==
  IF ~\E k \in 1..Len(l.list) : SameItem(l.list[k], item) THEN Broke(l, "ValueError")
  ELSE IF item.value \notin l.set
  THEN Broke([l EXCEPT !.list = PopAt(@, IndexOf(l.list, item))], "KeyError")
  ELSE Done([l EXCEPT !.list = PopAt(@, IndexOf(l.list, item)), !.set = @ \ {item.value}])

\* List.pop(): yo._list.pop(); yo._set.remove(value)
ListPop(l) ==
  IF Len(l.list) = 0 THEN Broke(l, "IndexError")
  ELSE IF l.list[Len(l.list)].value \notin l.set
  THEN Broke([l EXCEPT !.list = PopAt(@, Len(l.list) - 1)], "KeyError")
  ELSE Done([l EXCEPT !.list = PopAt(@, Len(l.list) - 1),
                      !.set = @ \ {l.list[Len(l.list)].value}])

\* List.clear()
ListClear(l) == Done([l EXCEPT !.list = <<>>, !.set = {}, !.whole = {}, !.current = -1])

\* ------------------------------------------------------------- iteration
\* DbfTable.__getitem__(int) for value >= 0
TableItem(s, i) ==
  IF i >= s.header.record_count THEN Raise(s, "IndexError") ELSE TableGet(s, i)

\* yo(record) of Index.reindex for the record the iterator has yielded, or not
ReindexOne(got, k, i) ==
  IF ~Ok(got) THEN got
  ELSE IF ~use_deleted /\ Deleted(got.heap[got.table[i + 1]]) THEN got
  ELSE IndexCall(Emit(got, "index"), k, got.table[i + 1])

\* Index.reindex() of the index at k: for record in yo._table: yo(record), where
\* the loop is DbfTable.DbfIterator (it skips deleted records unless use_deleted)
RECURSIVE ReindexLoop(_, _, _)
ReindexLoop(s, k, i) ==
  IF i >= s.header.record_count \/ ~Ok(s) THEN s
  ELSE ReindexLoop(ReindexOne(TableItem(s, i), k, i), k, i + 1)

\* DbfTable.reindex()
RECURSIVE Reindex(_, _)
Reindex(s, k) ==
  IF k > Len(s.indexen) \/ ~Ok(s) THEN s ELSE Reindex(ReindexLoop(s, k, 0), k + 1)

\* ------------------------------------------------------------------- pack
\* if dbflist._purge(record, recno, 1): found = True; ret carries found
Purged(s, k, r) ==
  [s EXCEPT !.lists[k] = r.l, !.exc = r.exc, !.ret = @ \/ (r.exc = NoExc /\ r.found)]

\* for dbflist in yo._dbflists: ...
RECURSIVE PurgeLists(_, _, _)
PurgeLists(s, k, recno) ==
  IF k > Len(s.lists) \/ ~Ok(s) THEN s
  ELSE PurgeLists(Purged(Emit(s, "purge"), k, ListPurge(s.lists[k], recno, 1)),
                  k + 1, recno)

\* a deleted record of the loop of pack, after the lists were told
Dropped(purged, o, p) ==
  IF ~Ok(purged) THEN [s |-> purged, p |-> p]
  ELSE [s |-> [purged EXCEPT !.heap[o].recnum = -1],
        p |-> [p EXCEPT !.offset = IF purged.ret THEN @ + 1 ELSE @]]

\* the body of the loop of pack for the record at position i; p carries newtable,
\* index and offset
PackRecord(got, p, i) ==
  LET o == got.table[i + 1] IN
  IF ~Ok(got) THEN [s |-> got, p |-> p]
  ELSE IF Deleted(got.heap[o])
  THEN Dropped(PurgeLists([got EXCEPT !.ret = FALSE], 1, got.heap[o].recnum - p.offset),
               o, p)
  ELSE [s |-> [got EXCEPT !.heap[o].recnum = p.index],
        p |-> [p EXCEPT !.newtable = Append(@, o), !.index = @ + 1]]

\* the loop of DbfTable.pack over yo._table
RECURSIVE PackLoop(_, _)
PackLoop(sp, i) ==
  IF i >= Len(sp.s.table) \/ ~Ok(sp.s) THEN sp
  ELSE PackLoop(PackRecord(TableGet(sp.s, i), sp.p, i), i + 1)

\* yo._table.clear() and the refill of DbfTable.pack: a list has no clear method
PackClear(s, newtable) == IF s.listed THEN Raise(s, "AttributeError")
                          ELSE [s EXCEPT !.table = newtable]

\* yo._current = -1 of DbfTable.pack and DbfTable.zap: an attribute of the table,
\* not the record pointer _meta.current
ResetCurrent(s) == s

\* yo.reindex() at the end of pack
PackReindex(s) == IF Ok(s) THEN Reindex(s, 1) ELSE s

\* a pack that rewrites the header and leaves the records where they were
PackSyncHeaderOnly(s, index) ==
  IF Ok(s) THEN TableUpdateDisk(ResetCurrent([s EXCEPT !.header.record_count = index]), TRUE)
  ELSE s

\* record_count = index; yo._current = -1; yo._update_disk()
PackSync(s, index) ==
  IF Ok(s) THEN TableUpdateDisk(ResetCurrent([s EXCEPT !.header.record_count = index]), FALSE)
  ELSE s

\* DbfTable.pack() after its loop
PackEnd(sp) ==
  IF Ok(sp.s) THEN PackReindex(PackSync(PackClear(sp.s, sp.p.newtable), sp.p.index))
  ELSE sp.s

\* DbfTable.pack()
PackCall(s) ==
  PackEnd(PackLoop([s |-> [s EXCEPT !.indexen = [k \in 1..Len(s.indexen) |->
                                                   IndexClear(s.indexen[k])],
                                    !.trace = @ \o [k \in 1..Len(s.indexen) |-> "clear"]],
                    p |-> [newtable |-> <<>>, index |-> 0, offset |-> 0]], 0))

\* zap that does not ask
ZapAnyway(s, areyousure) ==
  TableUpdateDisk(ResetCurrent([s EXCEPT !.table = <<>>,
                                         !.listed = IF inmemory THEN TRUE ELSE @,
                                         !.header.record_count = 0]), FALSE)

\* DbfTable.zap(areyousure)
ZapCall(s, areyousure) ==
  IF areyousure
  THEN TableUpdateDisk(ResetCurrent([s EXCEPT !.table = <<>>,
                                              !.listed = IF inmemory THEN TRUE ELSE @,
                                              !.header.record_count = 0]), FALSE)
  ELSE Raise(s, "DbfError")

\* ----------------------------------------------------------- the layout
\* a record object nothing refers to is gone: the table will read it again
Forget(s, i, alive) ==
  IF s.listed \/ s.table[i + 1] \in alive THEN s ELSE [s EXCEPT !.table[i + 1] = NoObj]

\* the body of [record for record in yo] for the record at i: a record the
\* iterator skips is referred to by nothing but the caller
LoadOne(got, i) ==
  IF ~Ok(got) THEN got
  ELSE IF ~use_deleted /\ Deleted(got.heap[got.table[i + 1]]) THEN Forget(got, i, held)
  ELSE got

\* all_records = [record for record in yo]
RECURSIVE LoadAll(_, _)
LoadAll(s, i) ==
  IF i >= s.header.record_count \/ ~Ok(s) THEN s
  ELSE LoadAll(LoadOne(TableItem(s, i), i), i + 1)

\* the record objects that live through the call: all_records and the caller's
Alive(s) == (Range(s.table) \ {NoObj}) \cup held

\* what add_fields, delete_fields and resize_field do to the data of one record
Reshape(s, o, how) ==
  LET data == s.heap[o].data
  IN CASE how.kind = "blank" -> SetAttr(s, o, how.name, <<>>)
       [] how.kind = "cut" ->
            [s EXCEPT !.heap[o].data = Slice(data, 0, how.start) \o Slice(data, how.end, Len(data))]
       [] how.kind = "resize" ->
            [s EXCEPT !.heap[o].data =
               Slice(data, 0, how.start)
               \o SetSlice(Spaces(how.size), 0, how.eff_end,
                           Slice(data, how.start, how.start + how.eff_end))
               \o Slice(data, how.end, Len(data))]

\* the body of for record in yo: ... for the record at i
ReshapeOne(got, i, how, alive) ==
  IF ~Ok(got) THEN got
  ELSE IF ~use_deleted /\ Deleted(got.heap[got.table[i + 1]]) THEN Forget(got, i, alive)
  ELSE Forget(Reshape(got, got.table[i + 1], how), i, alive)

\* for record in yo: ...
RECURSIVE EachRecord(_, _, _, _)
EachRecord(s, i, how, alive) ==
  IF i >= s.header.record_count \/ ~Ok(s) THEN s
  ELSE EachRecord(ReshapeOne(TableItem(s, i), i, how, alive), i + 1, how, alive)

RECURSIVE SumLengths(_, _)
SumLengths(block, k) == IF k > Len(block) THEN 0 ELSE block[k].length + SumLengths(block, k + 1)

\* a header with no extra part after the field block
StartPlain(n, isdb3) == HeaderLen + DescLen * n + 1

\* the length of header.data: 32 bytes, the field block, the CR and the extra part
StartOf(n, isdb3) == HeaderLen + DescLen * n + 1 + (IF isdb3 THEN 0 ELSE VfpExtraLen)

\* DbfTable._buildHeaderFields() with the setter _TableHeader.fields: the field
\* block, header.start and header.record_length
HasMemo(s) == \E k \in 1..Len(s.fields) : s.fmeta[s.fields[k]].type \in MemoTypes
WithMemo(s) ==
  IF ~HasMemo(s) THEN s
  ELSE IF s.memo.made THEN [s EXCEPT !.header.version = BitOr(@, YesMemoMask)]
  ELSE MemoNew([s EXCEPT !.header.version = BitOr(@, YesMemoMask)], ~inmemory)
BuildHeaderFields(s) ==
  LET block == [k \in 1..Len(s.fields) |->
                  [name |-> s.fields[k], type |-> s.fmeta[s.fields[k]].type,
                   length |-> s.fmeta[s.fields[k]].length]]
  IN IF ~Ok(s) THEN s
     ELSE IF \E j, k \in 1..Len(s.fields) : j # k /\ s.fields[j] = s.fields[k]
     THEN Raise([s EXCEPT !.header.version = BitAnd(@, NoMemoMask)], "DbfError")
     ELSE WithMemo([s EXCEPT !.header.version = BitAnd(@, NoMemoMask),
                             !.header.fields = block,
                             !.header.start = StartOf(Len(block), db3),
                             !.header.record_length = 1 + SumLengths(block, 1)])

\* yo._update_disk() at the end of a layout change
LayoutSync(s, headeronly) == IF Ok(s) THEN TableUpdateDisk(s, headeronly) ELSE s

\* meta[name] = {...}
SetMeta(fm, name, def) == [f \in DOMAIN fm \cup {name} |-> IF f = name THEN def ELSE fm[f]]

\* the body of the loop of add_fields; a specifier is a name, a length and whether
\* it is well formed
\* fieldtypes[field_type]['Init'](format): addCharacter, addMemo, addVfpMemo
InitLength(spec) ==
  IF spec.type = "C" THEN spec.length
  ELSE IF db3 \/ (fp /\ spec.type # "M") THEN Db3MemoLen ELSE VfpMemoLen
\* if meta[name]['type'] in yo._memotypes and meta.memo is None
MemoFor(s, spec) == IF spec.type \in MemoTypes /\ ~s.memo.made THEN MemoNew(s, ~inmemory) ELSE s
\* addCharacter(format): if not 0 < length < 255: raise ValueError
LengthOk(spec) == spec.type # "C" \/ (0 < spec.length /\ spec.length < 255)
AddOne(s, spec, offset, alive) ==
  IF ~spec.valid THEN Raise(s, "DbfError")
  ELSE IF HasField(s, spec.name) THEN Raise(s, "DbfError")
  ELSE IF ~LengthOk(spec) THEN Raise(s, "DbfError")
  ELSE EachRecord(MemoFor([s EXCEPT !.fields = Append(@, spec.name),
                                    !.fmeta = SetMeta(@, spec.name,
                                                [type |-> spec.type, start |-> offset,
                                                 length |-> InitLength(spec),
                                                 end |-> offset + InitLength(spec)])],
                          spec),
                  0, [kind |-> "blank", name |-> spec.name], alive)

RECURSIVE AddLoop(_, _, _, _, _)
AddLoop(s, specs, k, offset, alive) ==
  IF k > Len(specs) \/ ~Ok(s) THEN s
  ELSE AddLoop(AddOne(s, specs[k], offset, alive), specs, k + 1,
               offset + InitLength(specs[k]), alive)

\* add_fields once all_records is made
AddLoaded(s, specs) ==
  IF Ok(s)
  THEN LayoutSync(BuildHeaderFields(AddLoop([s EXCEPT !.blankrecord = None], specs, 1,
                                            s.header.record_length, Alive(s))), FALSE)
  ELSE s

\* DbfTable.add_fields(field_specs); the backup it makes is another file
AddFieldsCall(s, specs) == AddLoaded(LoadAll(s, 0), specs)

\* every victim is a field of the table
AllFields(s, doomed) == \A k \in 1..Len(doomed) : HasField(s, doomed[k])

\* python list.index(x) on the field list, 0-based; x is present
FieldIndex(s, name) == CHOOSE i \in 0..(Len(s.fields) - 1) :
                         /\ s.fields[i + 1] = name
                         /\ \A j \in 0..(i - 1) : s.fields[j + 1] # name

\* the loop of delete_fields that moves the fields after the victim down
RECURSIVE CloseGap(_, _, _, _)
CloseGap(s, k, start, end) ==
  IF k > Len(s.fields) \/ ~Ok(s) THEN s
  ELSE LET f == s.fmeta[s.fields[k]]
       IN IF f.start = end
          THEN CloseGap([s EXCEPT !.fmeta[s.fields[k]].start = start,
                                  !.fmeta[s.fields[k]].end = start + f.length],
                        k + 1, start + f.length, f.end)
          ELSE CloseGap(s, k + 1, start, end)

\* the body of the loop of delete_fields
DeleteOne(s, victim, alive) ==
  IF ~HasField(s, victim) THEN Raise(s, "ValueError")
  ELSE BuildHeaderFields(
         CloseGap(EachRecord([s EXCEPT !.fields = PopAt(@, FieldIndex(s, victim))], 0,
                             [kind |-> "cut", start |-> s.fmeta[victim].start,
                              end |-> s.fmeta[victim].end], alive),
                  1, s.fmeta[victim].start, s.fmeta[victim].end))

RECURSIVE DeleteLoop(_, _, _, _)
DeleteLoop(s, doomed, k, alive) ==
  IF k > Len(doomed) \/ ~Ok(s) THEN s
  ELSE DeleteLoop(DeleteOne(s, doomed[k], alive), doomed, k + 1, alive)

\* delete_fields once all_records is made
DeleteLoaded(s, doomed) ==
  IF Ok(s) THEN LayoutSync(DeleteLoop(s, doomed, 1, Alive(s)), FALSE) ELSE s

\* DbfTable.delete_fields(doomed)
DeleteFieldsCall(s, doomed) ==
  IF ~AllFields(s, doomed) THEN Raise(s, "DbfError")
  ELSE DeleteLoaded(LoadAll(s, 0), doomed)

\* the loop of resize_field that moves the fields after the victim by delta
RECURSIVE MoveAfter(_, _, _, _)
MoveAfter(s, k, end, delta) ==
  IF k > Len(s.fields) \/ ~Ok(s) THEN s
  ELSE LET f == s.fmeta[s.fields[k]]
       IN IF f.start = end
          THEN MoveAfter([s EXCEPT !.fmeta[s.fields[k]].start = @ + delta,
                                   !.fmeta[s.fields[k]].end = @ + delta],
                         k + 1, f.end, delta)
          ELSE MoveAfter(s, k + 1, end, delta)

\* the body of the loop of resize_field
ResizeOne(s, victim, new_size, alive) ==
  LET f == s.fmeta[victim]
  IN BuildHeaderFields(
       MoveAfter(EachRecord([s EXCEPT !.fmeta[victim].length = new_size,
                                      !.fmeta[victim].end = f.start + new_size], 0,
                            [kind |-> "resize", start |-> f.start, end |-> f.end,
                             eff_end |-> Min(f.length, new_size), size |-> new_size],
                            alive),
                 1, f.end, new_size - f.length))

RECURSIVE ResizeLoop(_, _, _, _, _)
ResizeLoop(s, doomed, k, new_size, alive) ==
  IF k > Len(doomed) \/ ~Ok(s) THEN s
  ELSE ResizeLoop(ResizeOne(s, doomed[k], new_size, alive), doomed, k + 1, new_size, alive)

\* resize_field once all_records is made
ResizeLoaded(s, doomed, new_size) ==
  IF Ok(s) THEN LayoutSync(ResizeLoop(s, doomed, 1, new_size, Alive(s)), FALSE) ELSE s

\* DbfTable.resize_field(doomed, new_size)
ResizeFieldCall(s, doomed, new_size) ==
  IF ~(0 < new_size /\ new_size < 256) THEN Raise(s, "DbfError")
  ELSE IF ~AllFields(s, doomed) THEN Raise(s, "DbfError")
  ELSE ResizeLoaded(LoadAll(s, 0), doomed, new_size)

\* DbfTable.rename_field(oldname, newname); wellformed: the new name starts with
\* a letter, holds letters, digits and _ only, and is at most 10 long
RenameFieldCall(s, oldname, newname, wellformed) ==
  IF ~HasField(s, oldname) THEN Raise(s, "DbfError")
  ELSE IF ~wellformed THEN Raise(s, "DbfError")
  ELSE IF HasField(s, newname) THEN Raise(s, "DbfError")
  ELSE LayoutSync(BuildHeaderFields(
                    [s EXCEPT !.fmeta = SetMeta(@, newname, s.fmeta[oldname]),
                              !.fields[FieldIndex(s, oldname) + 1] = newname]), TRUE)

\* ----------------------------------------------------------------- cursor
\* return yo._table[i]: ret is the record object
Fetched(got, i) == IF Ok(got) THEN [got EXCEPT !.ret = got.table[i + 1]] ELSE got

\* DbfTable.current(): ret is the record object
CurrentCall(s) ==
  IF s.current < 0 THEN Raise(s, "Bof")
  ELSE IF s.current >= s.header.record_count THEN Raise(s, "Eof")
  ELSE Fetched(TableGet(s, s.current), s.current)

\* DbfTable.eof(_move=True): ret is TRUE when no usable record follows
RECURSIVE EofMove(_)
RECURSIVE EofSkip(_)
EofMove(s) ==
  IF s.current < s.header.record_count - 1
  THEN IF use_deleted THEN [s EXCEPT !.current = @ + 1, !.ret = FALSE]
       ELSE EofSkip(CurrentCall([s EXCEPT !.current = @ + 1]))
  ELSE [s EXCEPT !.current = s.header.record_count, !.ret = TRUE]
\* if ... not yo.current().has_been_deleted: break
EofSkip(cur) ==
  IF ~Ok(cur) THEN cur
  ELSE IF ~Deleted(cur.heap[cur.ret]) THEN [cur EXCEPT !.ret = FALSE]
  ELSE EofMove(cur)

\* DbfTable.bof(_move=True): ret is TRUE when no usable record precedes
RECURSIVE BofMove(_)
RECURSIVE BofSkip(_)
BofMove(s) ==
  IF s.current > 0
  THEN IF use_deleted THEN [s EXCEPT !.current = @ - 1, !.ret = FALSE]
       ELSE BofSkip(CurrentCall([s EXCEPT !.current = @ - 1]))
  ELSE [s EXCEPT !.current = -1, !.ret = TRUE]
BofSkip(cur) ==
  IF ~Ok(cur) THEN cur
  ELSE IF ~Deleted(cur.heap[cur.ret]) THEN [cur EXCEPT !.ret = FALSE]
  ELSE BofMove(cur)

\* if yo.eof(_move=True): raise Eof; return yo.current()
NextEnd(e) == IF ~Ok(e) THEN e ELSE IF e.ret THEN Raise(e, "Eof") ELSE CurrentCall(e)
\* DbfTable.next()
NextCall(s) == NextEnd(EofMove(s))

\* if yo.bof(_move=True): raise Bof; return yo.current()
PrevEnd(b) == IF ~Ok(b) THEN b ELSE IF b.ret THEN Raise(b, "Bof") ELSE CurrentCall(b)
\* DbfTable.prev()
PrevCall(s) == PrevEnd(BofMove(s))

\* except Eof: yo._meta.current = -1; raise Bof
TopEnd(n) == IF n.exc = "Eof" THEN Raise([n EXCEPT !.current = -1], "Bof") ELSE n
\* DbfTable.top(get_record)
TopCall(s, get_record) ==
  IF get_record THEN TopEnd(NextCall([s EXCEPT !.current = -1]))
  ELSE [s EXCEPT !.current = -1]

\* except Bof: yo._meta.current = yo._meta.header.record_count; raise Eof
BottomEnd(p) ==
  IF p.exc = "Bof" THEN Raise([p EXCEPT !.current = p.header.record_count], "Eof") ELSE p
\* DbfTable.bottom(get_record)
BottomCall(s, get_record) ==
  IF get_record THEN BottomEnd(PrevCall([s EXCEPT !.current = s.header.record_count]))
  ELSE [s EXCEPT !.current = s.header.record_count]

\* DbfTable.goto(criteria) for an integer
GotoCall(s, criteria) ==
  LET n == s.header.record_count
  IN IF ~(-n <= criteria /\ criteria < n) THEN Raise(s, "IndexError")
     ELSE CurrentCall([s EXCEPT !.current = IF criteria < 0 THEN criteria + n ELSE criteria])

\* DbfTable.goto(criteria) for a sequence of (value, field, func): the record
\* pointer is read with current(index=True), and the loop condition yo.Eof()
\* names an attribute the table does not have
GotoCriteriaCall(s, match) ==
  IF s.current < 0 THEN Raise(s, "Bof")
  ELSE IF s.current >= s.header.record_count THEN Raise(s, "Eof")
  ELSE Raise(s, "AttributeError")

\* -------------------------------------------------- lists and indexes made
\* sequence.append(record) of DbfTable.__getitem__(slice) and of Index.search
ListAppend(l, item) ==
  LET added == MaybeAdd(l, item)
  IN [added EXCEPT !.current = IF @ = -1 /\ Len(added.list) > 0 THEN 0 ELSE @]

\* the body of the loop of DbfTable.__getitem__(slice) for the record at i
SliceOne(got, l, i) ==
  LET rec == got.heap[got.table[i + 1]]
  IN IF ~Ok(got) THEN [s |-> got, l |-> l]
     ELSE IF use_deleted \/ ~Deleted(rec)
     THEN [s |-> got, l |-> ListAppend(l, [recno |-> rec.recnum, value |-> rec.recnum])]
     ELSE [s |-> got, l |-> l]

\* DbfTable.__getitem__(slice(a, b)): the records a..b-1 as a new List
RECURSIVE SliceLoop(_, _, _)
SliceLoop(sl, i, b) ==
  IF i >= b \/ i >= sl.s.header.record_count \/ ~Ok(sl.s) THEN sl
  ELSE SliceLoop(SliceOne(TableGet(sl.s, i), sl.l, i), i + 1, b)

\* the body of the loop of Index.__init__ for the record at i
InitOne(got, ix, i) ==
  LET rec == got.heap[got.table[i + 1]]
  IN IF ~Ok(got) THEN [s |-> got, ix |-> ix]
     ELSE IF ~use_deleted /\ Deleted(rec) THEN [s |-> got, ix |-> ix]
     ELSE IF ~HasField(got, KeyField) THEN [s |-> Raise(got, "FieldMissing"), ix |-> ix]
     ELSE IF FieldValue(got, rec, KeyField) \in ix.skip THEN [s |-> got, ix |-> ix]
     ELSE [s |-> got, ix |-> IndexInsert(ix, rec.recnum, FieldValue(got, rec, KeyField))]

\* Index.__init__(table, key): for record in table, insert its key
RECURSIVE IndexInit(_, _)
IndexInit(six, i) ==
  IF i >= six.s.header.record_count \/ ~Ok(six.s) THEN six
  ELSE IndexInit(InitOne(TableItem(six.s, i), six.ix, i), i + 1)

\* DbfTable.get_record(recno): yo._table[recno], a negative recno counts from the end
GetRecord(s, recno) ==
  LET pos == IF recno < 0 THEN recno + Len(s.table) ELSE recno
  IN IF pos < 0 THEN Raise(s, "IndexError") ELSE Fetched(TableGet(s, pos), pos)

\* the body of the loop of Index.search for the index entry of record recno
SearchOne(got, l, recno) ==
  IF ~Ok(got) THEN [s |-> got, l |-> l]
  ELSE IF ~use_deleted /\ Deleted(got.heap[got.ret]) THEN [s |-> got, l |-> l]
  ELSE [s |-> got, l |-> MaybeAdd(l, [recno |-> recno, value |-> got.heap[got.ret].recnum])]

\* Index.search(match): the List it returns
RECURSIVE SearchLoop(_, _, _, _)
SearchLoop(sl, ix, match, loc) ==
  IF loc >= Len(ix.values) \/ ~Ok(sl.s) THEN sl
  ELSE IF ix.values[loc + 1] # match THEN sl
  ELSE SearchLoop(SearchOne(GetRecord(sl.s, ix.rec_by_val[loc + 1]), sl.l,
                            ix.rec_by_val[loc + 1]),
                  ix, match, loc + 1)
IndexSearch(s, k, match) ==
  SearchLoop([s |-> s, l |-> NewList], s.indexen[k], match,
             BisectLeft(s.indexen[k].values, match))

\* the body of the loop of DbfTable.DbfIterator.next for the record at i
IterOne(got, out, i) ==
  LET rec == got.heap[got.table[i + 1]]
  IN IF ~Ok(got) THEN [s |-> got, out |-> out]
     ELSE IF ~use_deleted /\ Deleted(rec) THEN [s |-> got, out |-> out]
     ELSE [s |-> got, out |-> Append(out, <<i, rec.recnum>>)]

\* for record in table: the records DbfTable.DbfIterator yields, as
\* <<position, record_number>>, until StopIteration or an exception
RECURSIVE IterLoop(_, _)
IterLoop(so, i) ==
  IF i >= so.s.header.record_count \/ ~Ok(so.s) THEN so
  ELSE IterLoop(IterOne(TableItem(so.s, i), so.out, i), i + 1)

\* ------------------------------------------------------------------ state
Values == {<<"a">>, <<"b">>}
TooLong == [i \in 1..(NameLen + 1) |-> "a"]
\* the dictionaries handed to append, with the drop flag
AppendArgs ==
  {<<<<>>, FALSE>>, <<<< <<KeyField, TooLong>> >>, FALSE>>,
   <<<< <<"nofield", <<"a">>>> >>, FALSE>>, <<<< <<"nofield", <<"a">>>> >>, TRUE>>}
  \cup {<<<< <<KeyField, v>> >>, FALSE>> : v \in Values}

\* the state after Table(filename, 'name C(NameLen)') of the dialect
CreatedAs(mem, isdb3, isfp, ignore_memos) ==
  LET start == HeaderLen + DescLen + 1 + (IF isdb3 THEN 0 ELSE VfpExtraLen)
      mask == IF isdb3 THEN Db3NoMemoMask ELSE IF isfp THEN FpNoMemoMask ELSE VfpVersion
  IN /\ inmemory = mem
     /\ db3 = isdb3
     /\ fp = isfp
     /\ memo = NoMemo
     /\ mfd = FALSE
     /\ mfile = NoFile
     /\ newmemofile = ~mem
     /\ ignorememos = ignore_memos
     /\ dfd = ~mem
     /\ damage = "none"
     /\ use_deleted = TRUE
     /\ fields = <<KeyField>>
     /\ fmeta = [f \in {KeyField} |-> [type |-> "C", start |-> 1, length |-> NameLen,
                                        end |-> 1 + NameLen]]
     /\ header = [record_count |-> 0, record_length |-> 1 + NameLen, start |-> start,
                  version |-> BitAnd(TemplateVersion(isdb3), mask),
                  fields |-> <<[name |-> KeyField, type |-> "C", length |-> NameLen]>>]
     /\ blankrecord = None
     /\ current = -1
     /\ table = <<>>
     /\ heap = <<>>
     /\ held = {}
     /\ fhead = IF mem THEN 0 ELSE start
     /\ fbody = IF ~mem /\ isdb3 THEN <<EOFB>> ELSE <<>>
     /\ lists = <<>>
     /\ indexen = <<>>
     /\ listed = mem
     /\ dhead = header
     /\ read_only = FALSE
     /\ meta_only = FALSE
     /\ last = [op |-> "new", exc |-> NoExc, val |-> <<>>]

\* the state after Table(filename, 'name C(NameLen)') of a Db3Table or a VfpTable
Created(mem, isdb3) == CreatedAs(mem, isdb3, FALSE, FALSE)

\* a Db3Table or a VfpTable on disk, or a Db3Table in memory
Init == \E mem \in BOOLEAN, isdb3 \in BOOLEAN : (mem => isdb3) /\ Created(mem, isdb3)

\* the engine state with its objects renamed; ret is the set the caller holds
Canon(c, order, keep) ==
  [Rename(c, order) EXCEPT !.ret = {NameOf(order, o) : o \in keep \cap DOMAIN c.heap}]
Settle(c, keep) == Canon(c, ObjectOrder(c), keep)

\* the engine state becomes the state
Store(r, op, exc, val) ==
  /\ fields' = r.fields
  /\ fmeta' = r.fmeta
  /\ header' = r.header
  /\ blankrecord' = r.blankrecord
  /\ current' = r.current
  /\ table' = r.table
  /\ heap' = r.heap
  /\ held' = r.ret
  /\ fhead' = r.fhead
  /\ fbody' = r.fbody
  /\ lists' = r.lists
  /\ indexen' = r.indexen
  /\ listed' = r.listed
  /\ dhead' = r.dhead
  /\ memo' = r.memo
  /\ mfd' = r.mfd
  /\ mfile' = r.mfile
  /\ newmemofile' = r.newmemofile
  /\ dfd' = r.dfd
  /\ last' = [op |-> op, exc |-> exc, val |-> val]
  /\ UNCHANGED <<inmemory, db3, fp, use_deleted, read_only, meta_only, ignorememos,
                 damage>>

\* a call ends: the objects nothing refers to are gone, the engine state is stored
Commit(s, keep, op, val) == Store(Settle(Collect(s, keep), keep), op, s.exc, val)

\* the record a call returned, as the caller sees it: its record_number
Returned(s) == IF Ok(s) THEN <<s.heap[s.ret].recnum>> ELSE <<>>

\* a call that returns a record ends; the caller keeps the record or not
CommitRecord(s, keep, op) ==
  LET keepset == IF Ok(s) /\ keep THEN held \cup {s.ret} ELSE held
  IN /\ Cardinality(keepset) <= MaxHeld
     /\ Commit(s, keepset, op, Returned(s))

\* ---------------------------------------------------------------- actions
\* table.append(dict, drop, multiple); the caller may keep the record returned
AppendRec(args, multiple, keep) ==
  /\ header.record_count + multiple <= MaxRecs
  /\ CommitRecord(AppendCall(Engine, args[1], args[2], multiple), keep, "append")

\* record = table[i]
Get(i) == CommitRecord(Fetched(TableItem(Engine, i), i), TRUE, "get")

\* the caller drops its reference to a record
Release(o) ==
  /\ o \in held
  /\ Commit(Engine, held \ {o}, "release", <<>>)

\* record.delete_record()
DeleteRecord(o) ==
  /\ o \in held
  /\ Commit([Engine EXCEPT !.heap[o].data[1] = STAR, !.heap[o].dirty = TRUE],
            held, "delete_record", <<>>)

\* record.undelete_record()
UndeleteRecord(o) ==
  /\ o \in held
  /\ Commit([Engine EXCEPT !.heap[o].data[1] = SP, !.heap[o].dirty = TRUE],
            held, "undelete_record", <<>>)

\* record.name = value
SetField(o, value) ==
  /\ o \in held
  /\ Commit(SetAttr(Engine, o, KeyField, value), held, "setattr", <<>>)

\* record.name = value; record.write_record()
Written(set, o) == IF Ok(set) THEN WriteRecord(set, o) ELSE set
Overwrite(o, value) ==
  /\ o \in held
  /\ Commit(Written(SetAttr(Engine, o, KeyField, value), o), held, "overwrite", <<heap[o].recnum>>)

\* record.gather_fields(dictionary, drop); the dictionary in the order python
\* iterates over it
Gather(o, dict, drop) ==
  /\ o \in held
  /\ Commit(GatherFields(Engine, o, dict, drop), held, "gather_fields", <<>>)

\* table._meta.memo.put_memo(data) and table._meta.memo.get_memo(block, field) of
\* a table that has a memo store; explored while the next block is at most MaxMemo
Stored(put) == Commit(put.s, held, "put_memo", IF Ok(put.s) THEN <<put.block>> ELSE <<>>)
MemoPut(data) ==
  /\ memo.made
  /\ memo.nextmemo <= MaxMemo /\ mfile.next <= MaxMemo
  /\ Stored(PutMemo(Engine, data))
\* the next free block: yo.nextmemo of _DbfMemo and _Db3Memo, the first four bytes
\* of the memo file for _VfpMemo; and meta.memo_size
NextFree(s) == IF ~inmemory /\ ~db3 THEN s.mfile.next ELSE s.memo.nextmemo
BlockSize == IF db3 THEN MemoSize ELSE VfpMemoSize
\* put_memo on the store of any dialect, explored for MaxMemo blocks past the first
StorePut(data) ==
  /\ memo.made
  /\ NextFree(Engine) < FirstBlock + MaxMemo
  /\ Stored(PutMemo(Engine, data))
Got(get) == Commit(get.s, held, "get_memo", get.data)
MemoGet(block) ==
  /\ memo.made
  /\ Got(GetMemo(Engine, block))

\* record.write_record()
WriteRec(o) ==
  /\ o \in held
  /\ Commit(WriteRecord(Engine, o), held, "write_record",
            <<IF heap[o].dirty THEN 1 ELSE 0>>)

\* table.pack(); explored while no List entry has drifted below -MaxDrift
Pack ==
  /\ \A k \in 1..Len(lists) : \A e \in 1..Len(lists[k].list) :
        lists[k].list[e].recno >= -MaxDrift
  /\ Commit(PackCall(Engine), held, "pack", <<>>)

\* table.zap(areyousure)
Zap(areyousure) == Commit(ZapCall(Engine, areyousure), held, "zap", <<>>)

\* table.use_deleted = b
SetUseDeleted(b) ==
  /\ use_deleted' = b
  /\ last' = [op |-> "use_deleted", exc |-> NoExc, val |-> <<>>]
  /\ UNCHANGED <<inmemory, db3, fields, fmeta, header, blankrecord, current, table, heap,
                 held, fhead, fbody, lists, indexen, listed, dhead, read_only, meta_only,
                 fp, memo, mfd, mfile, newmemofile, ignorememos, dfd, damage>>

\* table.top(get_record), table.bottom(get_record), table.next(), table.prev(),
\* table.goto(n): the record returned is not kept
CommitMove(s, op, get_record) ==
  Commit(s, held, op, IF get_record THEN Returned(s) ELSE <<>>)
Top(get_record) == CommitMove(TopCall(Engine, get_record), "top", get_record)
Bottom(get_record) == CommitMove(BottomCall(Engine, get_record), "bottom", get_record)
NextRec == CommitMove(NextCall(Engine), "next", TRUE)
PrevRec == CommitMove(PrevCall(Engine), "prev", TRUE)
Goto(n) == CommitMove(GotoCall(Engine, n), "goto", TRUE)
\* table.goto(((value, KeyField),))
GotoMatch(value) == CommitMove(GotoCriteriaCall(Engine, <<value>>), "goto_criteria", TRUE)

\* result = table[a:b]: a live List
Sliced(sl) == [sl.s EXCEPT !.lists = Append(@, sl.l)]
MakeList(a, b) ==
  /\ Len(lists) < MaxLists
  /\ Commit(Sliced(SliceLoop([s |-> Engine, l |-> NewList], a, b)), held, "slice", <<>>)

\* the caller drops a List
DropList(k) ==
  /\ k \in 1..Len(lists)
  /\ Commit([Engine EXCEPT !.lists = PopAt(@, k - 1)], held, "droplist", <<>>)

\* a call on the List at k has ended: the list as the call left it
Listed(k, r) == Raise([Engine EXCEPT !.lists[k] = r.l], r.exc)
\* lst.append(record), lst.insert(i, record), lst.remove(record) for a record the
\* caller holds
AppendToList(k, o) ==
  /\ k \in 1..Len(lists) /\ o \in held
  /\ Len(lists[k].list) < MaxEntries
  /\ Commit(Listed(k, Done(ListAppend(lists[k], ItemOf(heap[o])))), held, "list_append", <<>>)
InsertInList(k, i, o) ==
  /\ k \in 1..Len(lists) /\ o \in held
  /\ Len(lists[k].list) < MaxEntries
  /\ Commit(Listed(k, ListInsert(lists[k], i, ItemOf(heap[o]))), held, "list_insert", <<>>)
RemoveFromList(k, o) ==
  /\ k \in 1..Len(lists) /\ o \in held
  /\ Commit(Listed(k, ListRemove(lists[k], ItemOf(heap[o]))), held, "list_remove", <<>>)
\* lst.pop(), lst.clear()
PopList(k) ==
  /\ k \in 1..Len(lists)
  /\ Commit(Listed(k, ListPop(lists[k])), held, "list_pop", <<>>)
ClearList(k) ==
  /\ k \in 1..Len(lists)
  /\ Commit(Listed(k, ListClear(lists[k])), held, "list_clear", <<>>)
\* lst.extend(other)
ExtendList(k, j) ==
  /\ k \in 1..Len(lists) /\ j \in 1..Len(lists)
  /\ Len(ListExtend(lists[k], lists[j]).l.list) <= MaxEntries
  /\ Commit(Listed(k, ListExtend(lists[k], lists[j])), held, "list_extend", <<>>)
\* lst = lst[a:b], lst = lst + other, lst = lst - other: the name of the caller
\* is bound to the new List
SliceList(k, a, b) ==
  /\ k \in 1..Len(lists)
  /\ Commit(Listed(k, ListSlice(lists[k], a, b)), held, "list_slice", <<>>)
AddLists(k, j) ==
  /\ k \in 1..Len(lists) /\ j \in 1..Len(lists)
  /\ Len(ListAdd(lists[k], lists[j]).l.list) <= MaxEntries
  /\ Commit(Listed(k, ListAdd(lists[k], lists[j])), held, "list_add", <<>>)
SubLists(k, j) ==
  /\ k \in 1..Len(lists) /\ j \in 1..Len(lists)
  /\ Commit(Listed(k, ListSub(lists[k], lists[j])), held, "list_sub", <<>>)

\* index = table.create_index(key)
Indexed(six) == IF Ok(six.s) THEN [six.s EXCEPT !.indexen = Append(@, six.ix)] ELSE six.s
CreateIndex ==
  /\ Len(indexen) = 0
  /\ Commit(Indexed(IndexInit([s |-> Engine, ix |-> NewIndex], 0)), held,
            "create_index", <<>>)

\* table.create_index(key) with a key function that gives DoNotIndex for the
\* values in skip
CreatePartialIndex(skip) ==
  /\ Len(indexen) = 0
  /\ Commit(Indexed(IndexInit([s |-> Engine, ix |-> [NewIndex EXCEPT !.skip = skip]], 0)),
            held, "create_index", <<>>)

\* table.reindex()
ReindexTable ==
  /\ Len(indexen) > 0
  /\ Commit(Reindex(Engine, 1), held, "reindex", <<>>)

\* the caller drops the Index
DropIndex ==
  /\ Len(indexen) > 0
  /\ Commit([Engine EXCEPT !.indexen = <<>>], held, "dropindex", <<>>)

\* records that a layout change passed over keep their old length; the
\* exploration stops changing the layout once one is longer than any layout
Shapely == \A o \in DOMAIN heap : Len(heap[o].data) <= 1 + MaxFields * (NameLen + 1)

\* table.add_fields(specs), explored up to MaxFields fields
AddFields(specs) ==
  /\ Len(fields) + Len(specs) <= MaxFields
  /\ Shapely
  /\ Commit(AddFieldsCall(Engine, specs), held, "add_fields", <<>>)

\* table.delete_fields(doomed)
DeleteFields(doomed) ==
  /\ Len(fields) > 0
  /\ Commit(DeleteFieldsCall(Engine, doomed), held, "delete_fields", <<>>)

\* table.resize_field(doomed, new_size)
ResizeField(doomed, new_size) ==
  /\ Len(fields) > 0
  /\ Shapely
  /\ Commit(ResizeFieldCall(Engine, doomed, new_size), held, "resize_field", <<>>)

\* table.rename_field(oldname, newname)
RenameField(oldname, newname, wellformed) ==
  /\ Len(fields) > 0
  /\ Commit(RenameFieldCall(Engine, oldname, newname, wellformed), held, "rename_field", <<>>)

\* for record in yo._table: replacement_table.append(record)
RECURSIVE KeepTable(_, _)
KeepTable(s, i) ==
  IF i >= Len(s.table) \/ ~Ok(s) THEN s ELSE KeepTable(TableGet(s, i), i + 1)

\* DbfTable.close(keep_table), keep_memos left False: the records it keeps, the
\* memo descriptor it closes
CloseCall(s, keep_table) ==
  IF keep_table THEN [KeepTable(s, 0) EXCEPT !.listed = TRUE, !.mfd = FALSE, !.dfd = FALSE]
  ELSE [s EXCEPT !.mfd = FALSE, !.dfd = FALSE]

\* the flags DbfTable.close and DbfTable.open set
Flagged(mem, ro, mo) == inmemory' = mem /\ read_only' = ro /\ meta_only' = mo

\* a call that changes the mode of the table ends
StoreMode(r, op) ==
  /\ fields' = r.fields
  /\ fmeta' = r.fmeta
  /\ header' = r.header
  /\ blankrecord' = r.blankrecord
  /\ current' = r.current
  /\ table' = r.table
  /\ heap' = r.heap
  /\ held' = r.ret
  /\ fhead' = r.fhead
  /\ fbody' = r.fbody
  /\ lists' = r.lists
  /\ indexen' = r.indexen
  /\ listed' = r.listed
  /\ dhead' = r.dhead
  /\ memo' = r.memo
  /\ mfd' = r.mfd
  /\ mfile' = r.mfile
  /\ newmemofile' = r.newmemofile
  /\ dfd' = r.dfd
  /\ last' = [op |-> op, exc |-> r.exc, val |-> <<>>]
  /\ UNCHANGED <<db3, fp, use_deleted, damage>>

\* table.close(keep_table) of an open table on disk whose records can be read
Close(keep_table) ==
  /\ ~inmemory
  /\ Ok(CloseCall(Engine, keep_table))
  /\ StoreMode(Settle(Collect(CloseCall(Engine, keep_table), held), held), "close")
  /\ Flagged(TRUE, keep_table, ~keep_table)
  /\ ignorememos' = (mfd \/ ignorememos)

\* yo._initializeFields(): the fields as the header read from the file lists them
RECURSIVE FieldsOf(_, _, _)
FieldsOf(block, k, offset) ==
  IF k > Len(block) THEN <<>>
  ELSE <<[name |-> block[k].name, type |-> block[k].type, start |-> offset,
          length |-> block[k].length, end |-> offset + block[k].length]>>
       \o FieldsOf(block, k + 1, offset + block[k].length)
InitializeFields(s, defs) ==
  [s EXCEPT !.fields = [k \in 1..Len(defs) |-> defs[k].name],
            !.fmeta = [n \in DOMAIN s.fmeta \cup {defs[k].name : k \in 1..Len(defs)} |->
                         IF \E k \in 1..Len(defs) : defs[k].name = n
                         THEN LET d == defs[CHOOSE k \in 1..Len(defs) : defs[k].name = n]
                              IN [type |-> d.type, start |-> d.start,
                                  length |-> d.length, end |-> d.end]
                         ELSE s.fmeta[n]]]

\* yo._checkMemoIntegrity() of Db3Table, FpTable and VfpTable
MemoChecked(s) ==
  IF ~Ok(s) \/ ignorememos \/ ~HasMemo(s) THEN s
  ELSE IF db3 /\ s.header.version # Db3Version + Db3YesMemoMask THEN Raise(s, "DbfError")
  ELSE IF ~s.mfile.exists THEN Raise(s, "DbfError")
  ELSE s
CheckMemoIntegrity(s) ==
  IF (db3 /\ s.header.version = Db3Version + Db3YesMemoMask) \/ (~db3 /\ s.mfile.exists)
  THEN MemoChecked(MemoNew(s, TRUE))
  ELSE MemoChecked(s)

\* dfd = meta.dfd = open(meta.filename, 'r+b'); header = _TableHeader(dfd.read(32))
Reopened(s) == [s EXCEPT !.dfd = TRUE, !.header = s.dhead, !.table = <<>>, !.listed = FALSE]
\* _checkMemoIntegrity closes the descriptor before it raises
ClosedOnError(s) == IF Ok(s) THEN s ELSE [s EXCEPT !.dfd = FALSE]

\* open() that keeps the header it has in memory
OpenStale(s) ==
  CheckMemoIntegrity(
    InitializeFields([s EXCEPT !.table = [i \in 1..s.header.record_count |-> NoObj],
                               !.listed = FALSE, !.dfd = TRUE,
                               !.current = IF s.header.record_count > 0 THEN 0 ELSE -1],
                     FieldsOf(s.header.fields, 1, 1)))

\* DbfTable.open(): the header is read again, the table is a fresh _Table; the
\* version byte, the codepage byte, the field block and the field types are
\* checked, then the memo file
OpenCall(s) ==
  IF s.dhead.version \notin SupportedTables
  THEN Raise([Reopened(s) EXCEPT !.dfd = FALSE], "DbfError")
  ELSE IF damage \in {"codepage", "fieldblock"} THEN Raise(Reopened(s), "DbfError")
  ELSE IF damage = "fieldtype" THEN Raise([Reopened(s) EXCEPT !.fields = <<>>], "DbfError")
  ELSE ClosedOnError(
         CheckMemoIntegrity(
           InitializeFields([Reopened(s) EXCEPT
                               !.table = [i \in 1..s.dhead.record_count |-> NoObj],
                               !.current = IF s.dhead.record_count > 0 THEN 0 ELSE -1],
                            FieldsOf(s.dhead.fields, 1, 1))))

\* table.open() of a table that was closed; an open() that raises leaves a table
\* whose descriptor is closed, which is not followed further
Open ==
  /\ read_only \/ meta_only
  /\ Ok(OpenCall(Engine))
  /\ StoreMode(Settle(Collect(OpenCall(Engine), held), held), "open")
  /\ Flagged(FALSE, FALSE, FALSE)
  /\ UNCHANGED ignorememos

\* table.open() that raises: the flags are already those of an open table
OpenFailed ==
  /\ read_only \/ meta_only
  /\ ~Ok(OpenCall(Engine))
  /\ StoreMode(Settle(Collect(OpenCall(Engine), held), held), "open")
  /\ Flagged(FALSE, FALSE, FALSE)
  /\ UNCHANGED ignorememos

\* while the table is closed another program overwrites the version byte, the
\* codepage byte, the end mark of the field block or the type of the first
\* field in the table file, or deletes the memo file
Damaged(d) ==
  /\ dhead' = IF d = "version" THEN [dhead EXCEPT !.version = FoxBaseVersion] ELSE dhead
  /\ mfile' = IF d = "memofile" THEN NoFile ELSE mfile
  /\ damage' = IF d \in {"version", "memofile"} THEN damage ELSE d
Damage(d) ==
  /\ (read_only \/ meta_only) /\ ~dfd /\ damage = "none"
  /\ Damaged(d)
  /\ last' = [op |-> "damage", exc |-> NoExc, val |-> <<>>]
  /\ UNCHANGED <<inmemory, db3, use_deleted, fields, fmeta, header, blankrecord, current,
                 table, heap, held, fhead, fbody, lists, indexen, listed, read_only,
                 meta_only, fp, memo, mfd, newmemofile, ignorememos, dfd>>

\* list(table)
Iterated(so) == Commit(so.s, held, "iter", so.out)
Iterate == Iterated(IterLoop([s |-> Engine, out |-> <<>>], 0))

Objs == 1..(MaxRecs + MaxHeld)
NamedArgs == {<<<< <<KeyField, v>> >>, FALSE>> : v \in Values}
BlankArgs == {<<<<>>, FALSE>>}
BadArgs == AppendArgs \ (NamedArgs \cup BlankArgs)
SomeArgs == BlankArgs \cup BadArgs \cup {<<<< <<KeyField, <<"a">>>> >>, FALSE>>}

\* ------------------------------------------------------- specifications
\* a table, its records, pack and zap
Next ==
  \/ \E args \in SomeArgs, multiple \in 1..2, keep \in BOOLEAN : AppendRec(args, multiple, keep)
  \/ \E i \in 0..(MaxRecs - 1) : Get(i)
  \/ \E o \in Objs : Release(o)
  \/ \E o \in Objs : DeleteRecord(o)
  \/ \E o \in Objs : UndeleteRecord(o)
  \/ \E o \in Objs : WriteRec(o)
  \/ Pack
  \/ \E sure \in BOOLEAN : Zap(sure)

Spec == Init /\ [][Next]_vars

\* a table with a live Index on the name field
NextIndex ==
  \/ \E args \in NamedArgs, keep \in BOOLEAN : AppendRec(args, 1, keep)
  \/ \E i \in 0..(MaxRecs - 1) : Get(i)
  \/ \E o \in Objs : Release(o)
  \/ \E o \in Objs, v \in Values : Overwrite(o, v)
  \/ CreateIndex
  \/ DropIndex

SpecIndex == Init /\ [][NextIndex]_vars

\* the same with an index whose key function gives DoNotIndex for the key 'b'
Skipped == {<<"b">>}
NextPartial ==
  \/ \E args \in NamedArgs, keep \in BOOLEAN : AppendRec(args, 1, keep)
  \/ \E i \in 0..(MaxRecs - 1) : Get(i)
  \/ \E o \in Objs : Release(o)
  \/ \E o \in Objs, v \in Values : Overwrite(o, v)
  \/ CreatePartialIndex(Skipped)
  \/ DropIndex

SpecPartial == Init /\ [][NextPartial]_vars

\* a table with an index on its KeyField that is packed, zapped and reindexed
NextReindex ==
  \/ \E args \in NamedArgs, keep \in BOOLEAN :
        header.record_count <= MaxShaped /\ AppendRec(args, 1, keep)
  \/ \E i \in 0..MaxShaped : Get(i)
  \/ \E o \in Objs : Release(o)
  \/ \E o \in Objs : DeleteRecord(o)
  \/ \E o \in Objs : WriteRec(o)
  \/ Pack
  \/ Zap(TRUE)
  \/ CreateIndex
  \/ DropIndex
  \/ ReindexTable

SpecReindex == Init /\ [][NextReindex]_vars

\* a Db3Table on disk and its record pointer
InitDisk == Created(FALSE, TRUE)
\* the values goto(criteria) looks for in the KeyField
Sought == {<<>>, <<"a">>}
NextCursor ==
  \/ \E args \in BlankArgs, multiple \in 1..2 : AppendRec(args, multiple, FALSE)
  \/ \E i \in 0..(MaxRecs - 1) : Get(i)
  \/ \E o \in Objs : Release(o)
  \/ \E o \in Objs : DeleteRecord(o)
  \/ \E o \in Objs : UndeleteRecord(o)
  \/ \E o \in Objs : WriteRec(o)
  \/ Pack
  \/ \E sure \in BOOLEAN : Zap(sure)
  \/ \E b \in BOOLEAN : SetUseDeleted(b)
  \/ \E g \in BOOLEAN : Top(g)
  \/ \E g \in BOOLEAN : Bottom(g)
  \/ NextRec
  \/ PrevRec
  \/ \E n \in (-MaxRecs)..MaxRecs : Goto(n)
  \/ \E value \in Sought : GotoMatch(value)

SpecCursor == InitDisk /\ [][NextCursor]_vars

\* a Db3Table, on disk or in memory, and the iteration over it
InitDb3 == \E mem \in BOOLEAN : Created(mem, TRUE)
NextIter ==
  \/ \E args \in BlankArgs, multiple \in 1..2 : AppendRec(args, multiple, FALSE)
  \/ \E i \in 0..(MaxRecs - 1) : Get(i)
  \/ \E o \in Objs : Release(o)
  \/ \E o \in Objs : DeleteRecord(o)
  \/ \E o \in Objs : UndeleteRecord(o)
  \/ \E o \in Objs : WriteRec(o)
  \/ Pack
  \/ \E b \in BOOLEAN : SetUseDeleted(b)
  \/ Iterate

SpecIter == InitDb3 /\ [][NextIter]_vars

\* a table and its live Lists
NextList ==
  \/ \E args \in BlankArgs, keep \in BOOLEAN : AppendRec(args, 1, keep)
  \/ \E i \in 0..(MaxRecs - 1) : Get(i)
  \/ \E o \in Objs : Release(o)
  \/ \E o \in Objs : DeleteRecord(o)
  \/ \E o \in Objs : WriteRec(o)
  \/ Pack
  \/ \E a \in 0..MaxRecs, b \in 0..MaxRecs : MakeList(a, b)
  \/ \E k \in 1..MaxLists : DropList(k)

SpecList == Init /\ [][NextList]_vars

\* a Db3Table and its layout
FieldNames == {KeyField, "b"}
FieldSpec(n, len, ok) == [name |-> n, type |-> "C", length |-> len, valid |-> ok]
MemoSpec(n) == [name |-> n, type |-> "M", length |-> 0, valid |-> TRUE]
AddSpecs ==
  {<<FieldSpec(n, 1, TRUE)>> : n \in FieldNames}
  \cup {<<FieldSpec("b", 1, TRUE), FieldSpec("9", 1, FALSE)>>}
Doomed == {<<n>> : n \in FieldNames} \cup {<<KeyField, "b">>}
NextFields ==
  \/ \E args \in BlankArgs : header.record_count < MaxShaped /\ AppendRec(args, 1, FALSE)
  \/ \E i \in 0..(MaxShaped - 1) : Get(i)
  \/ \E o \in Objs : Release(o)
  \/ \E o \in Objs : DeleteRecord(o)
  \/ \E o \in Objs : WriteRec(o)
  \/ \E b \in BOOLEAN : SetUseDeleted(b)
  \/ \E specs \in AddSpecs : AddFields(specs)
  \/ \E doomed \in Doomed : DeleteFields(doomed)
  \/ \E doomed \in Doomed, size \in 0..(NameLen + 1) : ResizeField(doomed, size)
  \/ \E old \in FieldNames, new \in FieldNames, ok \in BOOLEAN : RenameField(old, new, ok)

SpecFields == Created(TRUE, TRUE) /\ [][NextFields]_vars

\* a Db3Table of one or two Character fields and the dictionaries gathered into
\* its records
GatherKeys == {KeyField, "b", "nofield"}
GatherValues == {<<"a">>, TooLong}
GatherDicts ==
  {<<<<k, v>>>> : k \in GatherKeys, v \in GatherValues}
  \cup {d \in {<<<<k, v>>, <<j, w>>>> : k \in GatherKeys, j \in GatherKeys,
                                          v \in GatherValues, w \in GatherValues} :
            d[1][1] # d[2][1]}
NextGather ==
  \/ \E args \in BlankArgs : header.record_count < MaxShaped /\ AppendRec(args, 1, TRUE)
  \/ \E i \in 0..(MaxShaped - 1) : Get(i)
  \/ \E o \in Objs : Release(o)
  \/ \E o \in Objs : WriteRec(o)
  \/ AddFields(<<FieldSpec("b", 1, TRUE)>>)
  \/ \E o \in Objs, dict \in GatherDicts, drop \in BOOLEAN : Gather(o, dict, drop)

SpecGather == InitDb3 /\ [][NextGather]_vars

\* a Db3Table on disk made with or without ignore_memos, the memo field added
\* to it and the payloads put into its memo store
Run(c, n) == [i \in 1..n |-> c]
Payloads ==
  {<<>>, <<SP>>, <<"a">>, <<"a", SP>>, <<SP, "a">>, Run("a", 510), Run("a", 511),
   Run("a", 600), <<"a", EOFB>>, <<EOFB, EOFB, "a">>}
InitMemo == \E ignore_memos \in BOOLEAN : CreatedAs(FALSE, TRUE, FALSE, ignore_memos)
NextMemo ==
  \/ AddFields(<<MemoSpec("note")>>)
  \/ \E data \in Payloads : MemoPut(data)
  \/ \E block \in 0..(MaxMemo + 2) : MemoGet(block)

SpecMemo == InitMemo /\ [][NextMemo]_vars

\* the memo store of every kind: of a Db3Table in memory, of a Db3Table and of a
\* VfpTable on disk, made with or without ignore_memos
InitStores ==
  \E mem \in BOOLEAN, isdb3 \in BOOLEAN, ignore_memos \in BOOLEAN :
    (mem => isdb3) /\ CreatedAs(mem, isdb3, FALSE, ignore_memos)
NextStores ==
  \/ AddFields(<<MemoSpec("note")>>)
  \/ \E data \in Payloads : StorePut(data)
  \/ \E block \in 0..(MaxMemo + 2) : MemoGet(block)

SpecStores == InitStores /\ [][NextStores]_vars

\* the same table closed and opened again, which sets ignore_memos as well
FewPayloads == {<<>>, <<"a">>, Run("a", 600)}
NextIgnored ==
  \/ AddFields(<<MemoSpec("note")>>)
  \/ \E data \in FewPayloads : MemoPut(data)
  \/ \E block \in 0..(MaxMemo + 2) : MemoGet(block)
  \/ \E keep_table \in BOOLEAN : Close(keep_table)
  \/ Open

SpecIgnored == InitMemo /\ [][NextIgnored]_vars

\* the same for a Db3Table on disk made without ignore_memos
SpecReopen == InitDisk /\ [][NextIgnored]_vars

\* a table of each dialect on disk whose fields, Character and Memo, come and go
InitDialect ==
  \E isdb3 \in BOOLEAN, isfp \in BOOLEAN :
    ~(isdb3 /\ isfp) /\ CreatedAs(FALSE, isdb3, isfp, FALSE)
DialectSpecs == AddSpecs \cup {<<MemoSpec("note")>>, <<MemoSpec("b")>>}
DialectDoomed == Doomed \cup {<<"note">>}
NextDialect ==
  \/ \E args \in BlankArgs : header.record_count < MaxShaped /\ AppendRec(args, 1, FALSE)
  \/ \E specs \in DialectSpecs : AddFields(specs)
  \/ \E doomed \in DialectDoomed : DeleteFields(doomed)

SpecDialect == InitDialect /\ [][NextDialect]_vars

\* a table of each dialect on disk that is closed, whose file is changed from
\* outside, and that is opened again; a table whose open() raised is left alone
DamageKinds == {"version", "codepage", "fieldblock", "fieldtype", "memofile"}
Usable == ~(last.op = "open" /\ last.exc # NoExc)
NextOpen ==
  \/ \E args \in BlankArgs :
       Usable /\ header.record_count < MaxShaped /\ AppendRec(args, 1, FALSE)
  \/ \E specs \in DialectSpecs : Usable /\ AddFields(specs)
  \/ \E k \in BOOLEAN : Usable /\ Close(k)
  \/ \E d \in DamageKinds : Usable /\ Damage(d)
  \/ Usable /\ Open
  \/ Usable /\ OpenFailed

SpecOpen == InitDialect /\ [][NextOpen]_vars

\* a Db3Table, in memory or on disk, with live indexes, one of them partial,
\* and appends of blank records and of records with data, one or two at a time
NextAppend ==
  \/ \E args \in BlankArgs \cup NamedArgs, multiple \in 1..2, keep \in BOOLEAN :
       AppendRec(args, multiple, keep)
  \/ \E o \in Objs : Release(o)
  \/ CreateIndex
  \/ CreatePartialIndex(Skipped)
  \/ DropIndex

SpecAppend == InitDb3 /\ [][NextAppend]_vars

\* a Db3Table in memory whose records hold values and are soft-deleted, and
\* whose layout changes with use_deleted set or not
NextShape ==
  \/ \E args \in NamedArgs : header.record_count < MaxShaped /\ AppendRec(args, 1, FALSE)
  \/ \E i \in 0..(MaxShaped - 1) : Get(i)
  \/ \E o \in Objs : Release(o)
  \/ \E o \in Objs : DeleteRecord(o)
  \/ \E b \in BOOLEAN : SetUseDeleted(b)
  \/ \E specs \in AddSpecs : AddFields(specs)
  \/ \E doomed \in Doomed : DeleteFields(doomed)
  \/ \E doomed \in Doomed, size \in 1..(NameLen + 1) : ResizeField(doomed, size)

SpecShape == Created(TRUE, TRUE) /\ [][NextShape]_vars

\* a table and the Lists the caller makes of it and changes
NextLists ==
  \/ \E args \in BlankArgs : header.record_count < MaxShaped + 1 /\ AppendRec(args, 1, FALSE)
  \/ \E i \in 0..MaxShaped : Get(i)
  \/ \E o \in Objs : Release(o)
  \/ \E a \in 0..MaxShaped, b \in 0..(MaxShaped + 1) : MakeList(a, b)
  \/ \E k \in 1..MaxLists : DropList(k)
  \/ \E k \in 1..MaxLists, o \in Objs : AppendToList(k, o)
  \/ \E k \in 1..MaxLists, i \in 0..1, o \in Objs : InsertInList(k, i, o)
  \/ \E k \in 1..MaxLists, o \in Objs : RemoveFromList(k, o)
  \/ \E k \in 1..MaxLists : PopList(k)
  \/ \E k \in 1..MaxLists : ClearList(k)
  \/ \E k \in 1..MaxLists, j \in 1..MaxLists : ExtendList(k, j)
  \/ \E k \in 1..MaxLists, a \in 0..1, b \in 1..MaxEntries : SliceList(k, a, b)
  \/ \E k \in 1..MaxLists, j \in 1..MaxLists : AddLists(k, j)
  \/ \E k \in 1..MaxLists, j \in 1..MaxLists : SubLists(k, j)

SpecLists == InitDb3 /\ [][NextLists]_vars

\* a Db3Table, on disk or in memory, that is given a memo field; records are
\* appended to it one or several at a time, with a note or without
Notes == {<<>>, <<"a">>, Run("a", 600)}
NoteArgs == {<<<< <<"note", v>> >>, FALSE>> : v \in Notes}
NextCopies ==
  \/ AddFields(<<MemoSpec("note")>>)
  \/ \E args \in BlankArgs \cup NoteArgs, multiple \in 1..MaxRecs :
       AppendRec(args, multiple, FALSE)
  \/ \E block \in 0..(MaxMemo + 2) : MemoGet(block)

SpecCopies == InitDb3 /\ [][NextCopies]_vars

\* a table of each dialect on disk whose Character and Memo fields are added
\* and resized with lengths at both ends of what a field may have
Lengths == {0, 1, 254, 255, 256}
SizeSpecs == {<<FieldSpec("b", n, TRUE)>> : n \in Lengths} \cup {<<MemoSpec("note")>>}
NextSizes ==
  \/ \E args \in BlankArgs : header.record_count < MaxShaped /\ AppendRec(args, 1, FALSE)
  \/ \E specs \in SizeSpecs : AddFields(specs)
  \/ \E doomed \in DialectDoomed, size \in Lengths : ResizeField(doomed, size)

SpecSizes == InitDialect /\ [][NextSizes]_vars

\* ------------------------------------------------- values outside a table
\* the Logical and Date classes and the field codecs work on values alone: the
\* table stays as it is
table_vars == <<inmemory, db3, use_deleted, fields, fmeta, header, blankrecord, current,
                table, heap, held, fhead, fbody, lists, indexen, listed, dhead, read_only,
                meta_only, fp, memo, mfd, mfile, newmemofile, ignorememos, dfd, damage>>

\* record.field = value; record.field, on a field of the type and size
SetAndGet(type, size, value) ==
  /\ last' = [op |-> "field", exc |-> RoundTrip(type, size, value).exc,
              val |-> <<type, value, RoundTrip(type, size, value).value>>]
  /\ UNCHANGED table_vars
\* x | y and x & y of Logical
Or(x, y) ==
  /\ last' = [op |-> "A", exc |-> NoExc, val |-> <<x, y, LogicalA(x, y)>>]
  /\ UNCHANGED table_vars
And(x, y) ==
  /\ last' = [op |-> "K", exc |-> NoExc, val |-> <<x, y, LogicalK(x, y)>>]
  /\ UNCHANGED table_vars
\* a == b, a >= b, a > b, a <= b, a < b of Date
Compare(a, b) ==
  /\ last' = [op |-> "compare", exc |-> NoExc,
              val |-> <<a, b, [eq |-> DateEq(a, b), ge |-> DateGe(a, b),
                               gt |-> DateGt(a, b), le |-> DateLe(a, b),
                               lt |-> DateLt(a, b)]>>]
  /\ UNCHANGED table_vars

Logicals == {PyTrue, PyFalse, PyNone}
Years == {1, 1999, 2000, 9999}
Months == {1, 2, 12}
Days == {1, 28}
Dates == {NoDate} \cup {<<y, m, d>> : y \in Years, m \in Months, d \in Days}
Ints == {MinInt32, MinInt32 + 1, 0 - 65536, 0 - 256, 0 - 1, 0, 1, 255, 256, 65535,
         MaxInt32 - 1, MaxInt32}
CharLen == 2
Strings == {<<>>, <<"a">>, <<"a", "b">>, <<SP, "a">>, <<"a", SP>>, <<"a", SP, SP>>, <<SP>>}

NextValues ==
  \/ \E v \in Logicals : SetAndGet("L", 1, v)
  \/ \E v \in Dates : SetAndGet("D", 8, v)
  \/ \E v \in Ints : SetAndGet("I", 4, v)
  \/ \E v \in Strings : SetAndGet("C", CharLen, v)
  \/ \E x \in Logicals, y \in Logicals : Or(x, y)
  \/ \E x \in Logicals, y \in Logicals : And(x, y)
  \/ \E a \in Dates, b \in Dates : Compare(a, b)

SpecValues == Created(FALSE, FALSE) /\ [][NextValues]_vars

\* ------------------------------------------------------------ properties
\* the record at position i as the table would hand it out now
RecordAt(s, i) == TableGet(s, i).heap[TableGet(s, i).table[i + 1]]
Positions == 0..(header.record_count - 1)
Recnos(l) == {e.recno : e \in Range(l.list)}

\* C1: with a live index, after appends and overwrites that were each written
\* with write_record, index.search(k) returns exactly the records whose
\* current key is k, for every key k, also when several records share a key
C1_SearchExact ==
  Len(indexen) = 1 =>
    \A k \in Values :
      /\ Ok(IndexSearch(Engine, 1, k).s)
      /\ Recnos(IndexSearch(Engine, 1, k).l) =
           {i \in Positions : FieldValue(Engine, RecordAt(Engine, i), KeyField) = k}

\* C2: after pack() has returned, no record of the table has its delete flag
\* set and the record numbers are exactly 0..record_count-1, in order
AfterPack == last.op = "pack" /\ last.exc = NoExc
C2_PackedClean ==
  AfterPack =>
    /\ Len(table) = header.record_count
    /\ \A i \in Positions :
         /\ Ok(TableGet(Engine, i))
         /\ RecordAt(Engine, i).data[1] # STAR
         /\ RecordAt(Engine, i).recnum = i

\* pack() has returned, it removed a record the caller still holds and kept others
C2_Witness ==
  /\ AfterPack
  /\ header.record_count >= 2
  /\ \E o \in held : heap[o].recnum = -1

\* the table as the step leaves it
Engine1 ==
  [Engine EXCEPT !.fields = fields', !.fmeta = fmeta', !.header = header',
                 !.blankrecord = blankrecord', !.current = current', !.table = table',
                 !.heap = heap', !.fhead = fhead', !.fbody = fbody', !.lists = lists',
                 !.indexen = indexen', !.listed = listed', !.dhead = dhead',
                 !.memo = memo', !.mfd = mfd', !.mfile = mfile',
                 !.newmemofile = newmemofile', !.dfd = dfd']
DataAt(s, i) == RecordAt(s, i).data
Survivors == SelectSeq([k \in 1..header.record_count |-> DataAt(Engine, k - 1)],
                       LAMBDA d : d[1] # STAR)

\* C3: pack() keeps exactly the records that were not soft-deleted, in their
\* order and with their bytes unchanged, and record_count drops by the number
\* of deleted records
C3_PackKeeps ==
  [][last'.op = "pack" =>
       /\ last'.exc = NoExc
       /\ header'.record_count = Len(Survivors)
       /\ [k \in 1..header'.record_count |-> DataAt(Engine1, k - 1)] = Survivors]_vars

\* what pack should do to the record numbers a List holds: the entries of
\* deleted records go, the others move down by the deleted records before them
Gone(i) == DataAt(Engine, i)[1] = STAR
NewPosition(i) == i - Cardinality({j \in 0..(i - 1) : Gone(j)})
RecnoSeq(l) == [k \in 1..Len(l.list) |-> l.list[k].recno]
RECURSIVE Repositioned(_)
Repositioned(recnos) ==
  IF Len(recnos) = 0 THEN <<>>
  ELSE IF Gone(Head(recnos)) THEN Repositioned(Tail(recnos))
  ELSE <<NewPosition(Head(recnos))>> \o Repositioned(Tail(recnos))
Referring(l) == \A k \in 1..Len(l.list) : l.list[k].recno \in Positions

\* C4: for every live List whose entries refer to records of the table, after
\* pack() of the table on disk no entry refers to a record that was packed
\* away and every other entry holds the new position of its record, whatever
\* the list holds
C4_ListsFollowPack ==
  [][(last'.op = "pack" /\ ~inmemory /\ \A n \in 1..Len(lists) : Referring(lists[n])) =>
       /\ last'.exc = NoExc
       /\ Len(lists') = Len(lists)
       /\ \A n \in 1..Len(lists) :
            RecnoSeq(lists'[n]) = Repositioned(RecnoSeq(lists[n]))]_vars

\* C5: when filling the fields raises during append, record_count, the length
\* of the file and the records of the table are what they were before the call
FailedAppend == last'.op = "append" /\ last'.exc # NoExc
C5_AppendRollsBack ==
  [][FailedAppend =>
       /\ header'.record_count = header.record_count
       /\ FileSize(Engine1) = FileSize(Engine)
       /\ Len(table') = Len(table)
       /\ \A i \in Positions : DataAt(Engine1, i) = DataAt(Engine, i)]_vars

\* C6: the file of a table on disk is as long as the header says: start +
\* record_count * record_length, and one byte more (0x1A) for dBase III
C6_FileSize ==
  ~inmemory =>
    FileSize(Engine) = header.start + header.record_count * header.record_length
                         + (IF db3 THEN 1 ELSE 0)

\* C7: header.record_length is 1 plus the lengths of the fields of the table,
\* after any add_fields, delete_fields, resize_field and rename_field, also
\* after one that raised
RECURSIVE LengthOfFields(_)
LengthOfFields(names) ==
  IF Len(names) = 0 THEN 0 ELSE fmeta[Head(names)].length + LengthOfFields(Tail(names))
C7_RecordLength == header.record_length = 1 + LengthOfFields(fields)

\* C8: the record pointer of the table is never below -1 and never above
\* record_count
C8_CursorInRange == -1 <= current /\ current <= header.record_count

\* the records next() and prev() may stop at
Eligible(i) == use_deleted \/ DataAt(Engine, i)[1] # STAR
Higher == {i \in Positions : i > current /\ Eligible(i)}
Lower == {i \in Positions : i < current /\ Eligible(i)}
Least(S) == CHOOSE i \in S : \A j \in S : i <= j
Greatest(S) == CHOOSE i \in S : \A j \in S : i >= j
MovedTo(i) == current' = i /\ last'.exc = NoExc /\ last'.val = <<i>>

\* C9: next() moves the record pointer to the nearest higher eligible record
\* and returns it, or leaves it at record_count and raises Eof; prev() moves to
\* the nearest lower eligible record, or leaves it at -1 and raises Bof
C9_NextPrev ==
  [][/\ last'.op = "next" =>
          IF Higher # {} THEN MovedTo(Least(Higher))
          ELSE current' = header.record_count /\ last'.exc = "Eof"
     /\ last'.op = "prev" =>
          IF Lower # {} THEN MovedTo(Greatest(Lower))
          ELSE current' = -1 /\ last'.exc = "Bof"]_vars

\* C10: len(table) counts every record, deleted or not; iterating the table
\* yields exactly the records whose delete flag is clear (every record when
\* use_deleted is true), in ascending record-number order, and then stops
\* without an exception
Yielded == last.val
C10_Iteration ==
  /\ Len(table) = header.record_count
  /\ last.op = "iter" =>
       /\ last.exc = NoExc
       /\ {Yielded[k][1] : k \in 1..Len(Yielded)} = {i \in Positions : Eligible(i)}
       /\ \A k \in 1..(Len(Yielded) - 1) :
            /\ Yielded[k][1] < Yielded[k + 1][1]
            /\ Yielded[k][2] < Yielded[k + 1][2]

\* a table on disk that is closed and opened again
\* the fields added to it: a Character field or a Memo field
ModeSpecs == {<<FieldSpec("b", 1, TRUE)>>, <<MemoSpec("note")>>}
NextModes ==
  \/ \E args \in BlankArgs, keep \in BOOLEAN :
        header.record_count < MaxShaped /\ AppendRec(args, 1, keep)
  \/ \E i \in 0..(MaxShaped - 1) : Get(i)
  \/ \E o \in Objs : Release(o)
  \/ \E o \in Objs : DeleteRecord(o)
  \/ \E o \in Objs : WriteRec(o)
  \/ Pack
  \/ \E sure \in BOOLEAN : Zap(sure)
  \/ \E specs \in ModeSpecs : AddFields(specs)
  \/ \E keep_table \in BOOLEAN : Close(keep_table)
  \/ Open

SpecModes == InitDisk /\ [][NextModes]_vars

\* C11: on a table in read-only or meta-only mode, append, write_record of an
\* edited record, pack, zap and add_fields are rejected with an error and
\* leave record_count and the records as they were
Closed == read_only \/ meta_only
Mutation ==
  \/ last'.op \in {"append", "pack", "zap", "add_fields"}
  \/ last'.op = "write_record" /\ last'.val = <<1>>
C11_ClosedRejects ==
  [][(Closed /\ Mutation) =>
       /\ last'.exc # NoExc
       /\ header'.record_count = header.record_count
       /\ Len(table') = Len(table)
       /\ listed => \A i \in Positions : DataAt(Engine1, i) = DataAt(Engine, i)]_vars

\* C12: close() of an open table on disk releases the table file and the memo
\* file and leaves the table read-only if keep_table, else meta-only; open()
\* of the closed table clears both flags and takes record_count and the field
\* layout from the file, the cursor at 0 if there are records, else at -1
DfdOpen == dfd
OnFile == [k \in 1..Len(dhead.fields) |-> dhead.fields[k].name]
Known(dict) == {k \in 1..Len(dict) : HasField(Engine, dict[k][1])}
Fits(dict) == \A k \in Known(dict) : Len(RStrip(dict[k][2])) <= fmeta[dict[k][1]].length
Gathered(o, dict, drop) ==
  /\ (~drop /\ Known(dict) # DOMAIN dict /\ Fits(dict)) => last'.exc = "FieldMissing"
  /\ (~drop /\ Known(dict) # DOMAIN dict) => last'.exc # NoExc
  /\ last'.exc # NoExc => DataAt(Engine1, heap[o].recnum) = heap[o].data
  /\ (drop /\ Fits(dict)) =>
        /\ last'.exc = NoExc
        /\ \A k \in Known(dict) :
              FieldValue(Engine1, RecordAt(Engine1, heap[o].recnum), dict[k][1])
                = RStrip(dict[k][2])
CleanCopy(rec) ==
  \E p \in held' : /\ heap'[p].recnum = rec.recnum
                    /\ heap'[p].data = rec.data
                    /\ ~heap'[p].dirty
C14_WriteCleans ==
  [][\A o \in Objs :
       (WriteRec(o) /\ last'.exc = NoExc) =>
         /\ last'.val = <<IF heap[o].dirty THEN 1 ELSE 0>>
         /\ CleanCopy(heap[o])]_vars

\* C15: on the memo store of a Db3Table on disk, put of a payload of stripped
\* length L >= 1 returns the block that was next free, moves the next free
\* block, in the memo object and in the file header, by ceil((L + 2) / 512),
\* and get of the returned block gives the payload without trailing whitespace
Ceil(a, b) == (a + b - 1) \div b
PutGet(data) ==
  /\ last'.exc = NoExc
  /\ last'.val = <<memo.nextmemo>>
  /\ memo'.nextmemo = memo.nextmemo + Ceil(Len(RStrip(data)) + 2, MemoSize)
  /\ mfile'.next = memo'.nextmemo
  /\ GetMemo(Engine1, memo.nextmemo).data = RStrip(data)
C15_PutThenGet ==
  [][\A data \in Payloads :
       (MemoPut(data) /\ mfd /\ ~ignorememos /\ Len(RStrip(data)) >= 1)
         => PutGet(data)]_vars
\* the same for the payloads the format can hold: those that, stripped, have no
\* two 0x1A bytes in a row and do not end in 0x1A
Storable(data) == Find(RStrip(data) \o <<EOFB, EOFB>>) = Len(RStrip(data))
C15_PutThenGetStorable ==
  [][\A data \in Payloads :
       (MemoPut(data) /\ mfd /\ ~ignorememos /\ Len(RStrip(data)) >= 1
          /\ Storable(data))
         => PutGet(data)]_vars
\* 600 bytes were put into a new memo file: block 1, the next free block is 3
C15_Witness ==
  /\ last = [op |-> "put_memo", exc |-> NoExc, val |-> <<1>>]
  /\ memo.nextmemo = 3
  /\ mfile.next = 3
  /\ GetMemo(Engine, 1).data = Run("a", 600)

\* C16: while ignore_memos is set, get returns the empty payload for every
\* block and put returns 0 for every payload, and neither changes the next
\* free block or the memo file
C16_IgnoredMemos ==
  [][(ignorememos /\ last'.op \in {"get_memo", "put_memo"}) =>
       /\ last'.exc = NoExc
       /\ last'.op = "get_memo" => last'.val = <<>>
       /\ last'.op = "put_memo" => last'.val = <<0>>
       /\ memo' = memo
       /\ mfile' = mfile]_vars
\* a put that was ignored on a table whose memo file holds a memo
C16_Witness ==
  /\ ignorememos
  /\ last = [op |-> "put_memo", exc |-> NoExc, val |-> <<0>>]
  /\ mfile.exists
  /\ mfile.data # <<>>

\* C17: zap(True) leaves no record and, on disk, the file cut to the header, plus
\* the 0x1A of a Db3Table; zap() raises DbfError and leaves record_count, the
\* records and the file as they were
C17_Zap ==
  [][/\ Zap(TRUE) =>
          /\ last'.exc = NoExc
          /\ header'.record_count = 0
          /\ table' = <<>>
          /\ ~inmemory => /\ fhead' = header'.start
                          /\ fbody' = IF db3 THEN <<EOFB>> ELSE <<>>
     /\ Zap(FALSE) =>
          /\ last'.exc = "DbfError"
          /\ header' = header
          /\ table' = table
          /\ heap' = heap
          /\ fhead' = fhead
          /\ fbody' = fbody]_vars
\* a Db3Table on disk was zapped while the caller held one of its records
C17_Witness ==
  /\ last = [op |-> "zap", exc |-> NoExc, val |-> <<>>]
  /\ ~inmemory
  /\ db3
  /\ header.record_count = 0
  /\ fbody = <<EOFB>>
  /\ \E o \in held : heap[o].recnum >= 0

\* C18: after a write of an indexed record whose key is now DoNotIndex the index
\* has no entry for its record number, in _rec_by_val and in _records, and
\* both are one entry shorter
Unindexed(ix, ix1, recnum) ==
  /\ \A j \in 1..Len(ix1.rec_by_val) : ix1.rec_by_val[j] # recnum
  /\ recnum \notin DOMAIN ix1.records
  /\ Len(ix1.values) = Len(ix.values) - 1
  /\ Len(ix1.rec_by_val) = Len(ix.rec_by_val) - 1
  /\ Cardinality(DOMAIN ix1.records) = Cardinality(DOMAIN ix.records) - 1
C18_DoNotIndex ==
  [][\A o \in Objs, v \in Values :
       (/\ Len(indexen) = 1
        /\ Overwrite(o, v)
        /\ last'.exc = NoExc
        /\ v \in indexen[1].skip
        /\ heap[o].recnum \in DOMAIN indexen[1].records)
       => Unindexed(indexen[1], indexen'[1], heap[o].recnum)]_vars

\* C19: after table.reindex() and after pack() the index has exactly one entry
\* for every record of the table, under the record's key, and no other entry
EntriesOf(ix, recnum) == {j \in 1..Len(ix.rec_by_val) : ix.rec_by_val[j] = recnum}
C19_ReindexExact ==
  (last.op \in {"reindex", "pack"} /\ last.exc = NoExc /\ Len(indexen) = 1) =>
    /\ Len(indexen[1].rec_by_val) = header.record_count
    /\ Len(indexen[1].values) = header.record_count
    /\ DOMAIN indexen[1].records = Positions
    /\ \A i \in Positions :
          /\ Cardinality(EntriesOf(indexen[1], i)) = 1
          /\ \A j \in EntriesOf(indexen[1], i) :
                indexen[1].values[j] = FieldValue(Engine, RecordAt(Engine, i), KeyField)

\* C20: after the table is made and after every add_fields and delete_fields
\* the version byte of the header is one the dialect supports, the memo
\* variant exactly when a field of a memo type is present: 0x83 or 0x03 for
\* dBase III, 0xF5 or 0x03 for FoxPro, 0x30 for Visual FoxPro
ExpectedVersion ==
  IF db3 THEN (IF HasMemo(Engine) THEN 131 ELSE 3)
  ELSE IF fp THEN (IF HasMemo(Engine) THEN 245 ELSE 3)
  ELSE 48
C20_VersionByte ==
  last.op \in {"new", "add_fields", "delete_fields"} =>
    /\ header.version \in SupportedTables
    /\ header.version = ExpectedVersion
    /\ ~inmemory => dhead.version = header.version

\* C22: writing a valid value to a field and reading it back gives the same
\* value: L over True, False and unknown, D over the empty date and real dates,
\* I over the int32 values with both ends, C up to its trailing spaces
C22_RoundTrip ==
  last.op = "field" =>
    /\ last.exc = NoExc
    /\ last.val[3] = (IF last.val[1] = "C" THEN RStrip(last.val[2]) ELSE last.val[2])

\* C23: over True, False and unknown, AND is False when either operand is False,
\* OR is True when either operand is True, and otherwise the result is unknown
\* when either operand is unknown
Kleene(op, x, y) ==
  IF op = "K"
  THEN (IF x = PyFalse \/ y = PyFalse THEN PyFalse
        ELSE IF x = PyNone \/ y = PyNone THEN PyNone ELSE PyTrue)
  ELSE (IF x = PyTrue \/ y = PyTrue THEN PyTrue
        ELSE IF x = PyNone \/ y = PyNone THEN PyNone ELSE PyFalse)
C23_Kleene ==
  last.op \in {"A", "K"} => last.val[3] = Kleene(last.op, last.val[1], last.val[2])

\* C24: the comparison of Date values is a total order with the empty date
\* least: exactly one of <, ==, > holds, <= is < or ==, >= is > or ==, and
\* a >= b is b <= a
OneOf(p, q, r) == (p /\ ~q /\ ~r) \/ (~p /\ q /\ ~r) \/ (~p /\ ~q /\ r)
TotalOrder(a, b, c) ==
  /\ OneOf(c.lt, c.eq, c.gt)
  /\ c.le <=> (c.lt \/ c.eq)
  /\ c.ge <=> (c.gt \/ c.eq)
  /\ c.ge <=> DateLe(b, a)
  /\ (a = NoDate /\ b # NoDate) => (c.lt /\ c.le /\ ~c.gt /\ ~c.ge)
  /\ (a = NoDate /\ b = NoDate) => (c.eq /\ c.le /\ c.ge /\ ~c.lt /\ ~c.gt)
C24_DateOrder ==
  last.op = "compare" => TotalOrder(last.val[1], last.val[2], last.val[3])

\* C25: goto(criteria) leaves the record pointer on, and returns, the first
\* record whose field equals the value looked for, or, when no record matches,
\* leaves the record pointer where it was before the call
Matching(value) == {i \in Positions : FieldValue(Engine, RecordAt(Engine, i), KeyField) = value}
C25_GotoCriteria ==
  [][\A value \in Sought :
       GotoMatch(value) =>
         IF Matching(value) # {} THEN MovedTo(Least(Matching(value)))
         ELSE current' = current]_vars

\* C26: when opening an existing table fails after the file was opened, the
\* descriptor of the table file is closed when the error reaches the caller
C26_OpenFailureCloses == (last.op = "open" /\ last.exc # NoExc) => ~dfd

\* C27: in every live Index the keys are in non-decreasing order, there are as
\* many keys as record numbers, and for every record number the index knows,
\* the position bisect_left gives for its key holds that key and that record
\* number
Sorted(values) ==
  \A i \in 1..Len(values), j \in 1..Len(values) : i < j => ~SeqLess(values[j], values[i])
Placed(ix, rec_num) ==
  LET vindex == BisectLeft(ix.values, ix.records[rec_num])
  IN /\ vindex < Len(ix.values)
     /\ vindex < Len(ix.rec_by_val)
     /\ ix.values[vindex + 1] = ix.records[rec_num]
     /\ ix.rec_by_val[vindex + 1] = rec_num
IndexInvariant(ix) ==
  /\ Sorted(ix.values)
  /\ Len(ix.values) = Len(ix.rec_by_val)
  /\ \A rec_num \in DOMAIN ix.records : Placed(ix, rec_num)
C27_IndexInvariant == \A k \in 1..Len(indexen) : IndexInvariant(indexen[k])

\* C28: every live record of the table has record_length data bytes, the first
\* of them ' ' or '*', also a deleted record after add_fields, delete_fields and
\* resize_field, whether use_deleted is set or not
LiveRecords == (Range(table) \ {NoObj}) \cap DOMAIN heap
WellShaped(rec) ==
  /\ Len(rec.data) = header.record_length
  /\ rec.data[1] \in {SP, STAR}
C28_RecordShape == \A o \in LiveRecords : WellShaped(heap[o])

\* C29: after a successful append, blank or with data, on disk or in memory,
\* every live Index has an entry for each new record number, unless its key
\* function gives DoNotIndex for that record
Appended == header.record_count..(header'.record_count - 1)
KeyAt(s, i) == FieldValue(s, RecordAt(s, i), KeyField)
HasEntry(ix, rec_num) ==
  /\ rec_num \in DOMAIN ix.records
  /\ \E k \in 1..Len(ix.rec_by_val) : ix.rec_by_val[k] = rec_num
C29_AppendIndexed ==
  [][(last'.op = "append" /\ last'.exc = NoExc) =>
       \A k \in 1..Len(indexen'), i \in Appended :
         KeyAt(Engine1, i) \notin indexen'[k].skip => HasEntry(indexen'[k], i)]_vars

\* C21: in every reachable state the length of each field is one its type
\* allows: 1..254 for Character, 10 (dBase III, FoxPro) or 4 (Visual FoxPro) for
\* a memo type, also after resize_field
LengthAllowed(f) ==
  /\ f.type = "C" => f.length \in 1..254
  /\ f.type \in MemoTypes => f.length \in {Db3MemoLen, VfpMemoLen}
C21_FieldLengths == \A k \in 1..Len(fields) : LengthAllowed(fmeta[fields[k]])

\* C30: append with multiple = m > 1 adds exactly m records, all with the same
\* bytes in every field (so the same memo block number), and the memo store
\* takes the payload once: its next free block ends where the same append of
\* one record would leave it
OnePut(args) ==
  /\ memo'.nextmemo = AppendCall(Engine, args[1], args[2], 1).memo.nextmemo
  /\ mfile'.next = AppendCall(Engine, args[1], args[2], 1).mfile.next
Copies(m) ==
  /\ header'.record_count = header.record_count + m
  /\ \A i \in Appended : DataAt(Engine1, i) = DataAt(Engine1, header.record_count)
C30_MultipleSharesMemo ==
  [][\A args \in BlankArgs \cup NoteArgs, m \in 2..MaxRecs :
       (AppendRec(args, m, FALSE) /\ last'.exc = NoExc) => (Copies(m) /\ OnePut(args))]_vars

\* C31: a call that writes both the header and record bytes to the table file
\* (append, pack, zap) writes the header before it writes any record
FirstOf(tr, e) ==
  IF \E i \in 1..Len(tr) : tr[i] = e
  THEN CHOOSE i \in 1..Len(tr) : tr[i] = e /\ \A j \in 1..(i - 1) : tr[j] # e
  ELSE Len(tr) + 1
Has(tr, e) == \E i \in 1..Len(tr) : tr[i] = e
HeaderFirst(tr) ==
  (Has(tr, "header") /\ Has(tr, "record")) => FirstOf(tr, "header") < FirstOf(tr, "record")
C31_HeaderBeforeRecords ==
  [][/\ \A args \in SomeArgs, multiple \in 1..2, keep \in BOOLEAN :
          AppendRec(args, multiple, keep) =>
            HeaderFirst(AppendCall(Engine, args[1], args[2], multiple).trace)
     /\ Pack => HeaderFirst(PackCall(Engine).trace)
     /\ \A sure \in BOOLEAN : Zap(sure) => HeaderFirst(ZapCall(Engine, sure).trace)]_vars

\* C32: in a pack every call that tells an observer of the table (the clear
\* and the update of an index, the purge of a list) comes before the first
\* write of the pack to the table file
ToObserver == {"clear", "purge", "index"}
ToFile == {"header", "record"}
NotifiedFirst(tr) ==
  \A i \in 1..Len(tr), j \in 1..Len(tr) : (tr[i] \in ToObserver /\ tr[j] \in ToFile) => i < j
C32_PackNotifiesFirst == [][Pack => NotifiedFirst(PackCall(Engine).trace)]_vars

\* C33: in every List no two entries have the same key value, and the set of
\* seen keys is the set of the key values of the entries
KeyValues(l) == {l.list[e].value : e \in 1..Len(l.list)}
NoTwoAlike(l) ==
  \A e \in 1..Len(l.list), f \in 1..Len(l.list) : l.list[e].value = l.list[f].value => e = f
SeenIsKeys(l) == l.whole = {} /\ l.set = KeyValues(l)
C33_ListKeysUnique ==
  \A k \in 1..Len(lists) : NoTwoAlike(lists[k]) /\ SeenIsKeys(lists[k])

\* C34: a successful add_fields, delete_fields or resize_field on well-formed
\* records leaves every record, deleted or not, its delete flag and the bytes of
\* every field the call did not name; a resized field keeps its first
\* min(old, new) bytes and is filled up with spaces
LayoutOps == {"add_fields", "delete_fields", "resize_field"}
BytesOf(data, f) == Slice(data, f.start, f.end)
Refit(old, size) == [i \in 1..size |-> IF i <= Len(old) THEN old[i] ELSE SP]
Kept == {n \in Range(fields) \cap Range(fields') : fmeta[n].length = fmeta'[n].length}
Resized == {n \in Range(fields) \cap Range(fields') : fmeta[n].length # fmeta'[n].length}
Carried(old, new) ==
  /\ new[1] = old[1]
  /\ \A n \in Kept : BytesOf(new, fmeta'[n]) = BytesOf(old, fmeta[n])
  /\ \A n \in Resized :
       BytesOf(new, fmeta'[n]) = Refit(BytesOf(old, fmeta[n]), fmeta'[n].length)
C34_LayoutKeepsData ==
  [][(/\ last'.op \in LayoutOps /\ last'.exc = NoExc
      /\ \A o \in LiveRecords : WellShaped(heap[o])) =>
       \A i \in Positions : Carried(DataAt(Engine, i), DataAt(Engine1, i))]_vars

\* C35 as stated: in every reachable state of a table of any dialect
\* header.start is 32 + 32 x field_count + 1
C35_StartPlain == header.start = HeaderLen + DescLen * Len(header.fields) + 1

\* C35: in every reachable state header.start is 32 + 32 x field_count + 1 and,
\* in a FoxPro or Visual FoxPro table, the 263 bytes of the extra part
C35_StartOfData ==
  header.start = HeaderLen + DescLen * Len(header.fields) + 1
                 + (IF db3 THEN 0 ELSE VfpExtraLen)
C35_Witness == ~db3 /\ last.op = "add_fields" /\ last.exc = NoExc /\ Len(header.fields) = 2

\* C36: after a put on a dBase III memo store on disk the memo file is made of
\* whole 512-byte blocks and reaches at least to the next free block (1024
\* bytes after the first memo that is not empty)
MemoFileLen == MemoHeaderLen + Len(mfile.data)
C36_WholeBlocks ==
  (db3 /\ last.op = "put_memo" /\ mfd /\ mfile.exists) =>
    /\ MemoFileLen % MemoSize = 0
    /\ MemoFileLen >= mfile.next * MemoSize

\* C37: after append, an append that failed, pack and zap, every record number
\* held by a live Index (in _rec_by_val and in _records) or by a live List is
\* one of 0 .. record_count - 1
Countable(recno) == 0 <= recno /\ recno < header.record_count
IndexRecnos(ix) ==
  {ix.rec_by_val[j] : j \in 1..Len(ix.rec_by_val)} \cup DOMAIN ix.records
ListRecnos(l) == {l.list[e].recno : e \in 1..Len(l.list)}
C37_RecnosInRange ==
  last.op \in {"append", "pack", "zap"} =>
    /\ \A k \in 1..Len(indexen) : \A r \in IndexRecnos(indexen[k]) : Countable(r)
    /\ \A k \in 1..Len(lists) : \A r \in ListRecnos(lists[k]) : Countable(r)

\* C38: in any sequence of puts on a memo store a payload that is not empty
\* never gets block 0, the block numbers returned grow strictly, the next free
\* block never goes down, and the blocks of two puts are disjoint and lie after
\* the 512 bytes of the header.  Step by step: a put gets the block that was the
\* next free one, at or after the header, the next free block moves past it,
\* the bytes written end before the new next free block, and what was stored
\* before is as it was
OnDiskKept(s, put) ==
  /\ put.block * BlockSize >= MemoHeaderLen
  /\ Len(s.mfile.data) <= put.block * BlockSize - MemoHeaderLen
  /\ SubSeq(put.s.mfile.data, 1, Len(s.mfile.data)) = s.mfile.data
  /\ Len(put.s.mfile.data) <= NextFree(put.s) * BlockSize - MemoHeaderLen
InMemoryKept(s, put) ==
  /\ put.block \notin DOMAIN s.memo.memory
  /\ \A b \in DOMAIN s.memo.memory : put.s.memo.memory[b] = s.memo.memory[b]
Allocated(s, put, data) ==
  /\ NextFree(put.s) >= NextFree(s)
  /\ (data # <<>> /\ Ok(put.s)) =>
       /\ put.block # 0
       /\ put.block >= NextFree(s)
       /\ NextFree(put.s) > put.block
       /\ IF inmemory THEN InMemoryKept(s, put) ELSE OnDiskKept(s, put)
C38_PutsAllocate ==
  [][\A data \in Payloads :
       StorePut(data) => Allocated(Engine, PutMemo(Engine, data), data)]_vars
\* the same for the stores that do not ignore memos
C38_PutsAllocateStored ==
  [][\A data \in Payloads :
       (StorePut(data) /\ ~ignorememos) =>
         Allocated(Engine, PutMemo(Engine, data), data)]_vars
C38_Witness ==
  /\ ~ignorememos /\ last.op = "put_memo" /\ last.exc = NoExc
  /\ last.val # <<>> /\ last.val[1] > FirstBlock

\* C39: a table made without ignore_memos that is closed and opened again does
\* not ignore memos: after open() meta.ignorememos is as at construction, and
\* on the open table put_memo of a payload that is not empty gives a block that
\* is not 0
C39_ReopenKeepsMemos ==
  [][/\ (last'.op = "open" /\ last'.exc = NoExc) => ~ignorememos'
     /\ \A data \in FewPayloads \ {<<>>} :
          (dfd /\ MemoPut(data)) => PutMemo(Engine, data).block # 0]_vars

\* C40: add_fields is all or nothing: when it raises DbfError for a spec of
\* its list, the field names, the field block of the header, record_length and
\* the bytes of every record are as they were before the call
C40_AddFieldsAllOrNothing ==
  [][(last'.op = "add_fields" /\ last'.exc # NoExc) =>
       /\ last'.exc = "DbfError"
       /\ fields' = fields
       /\ header'.fields = header.fields
       /\ header'.record_length = header.record_length
       /\ \A i \in Positions : DataAt(Engine1, i) = DataAt(Engine, i)]_vars

TypeOK ==
  /\ Len(table) <= MaxRecs
  /\ held \subseteq DOMAIN heap

====
